---- MODULE Spec2Model ----
(***************************************************************************)
(* Model of ZooKeeperWithFaultInjection                                    *)
(* (src/Common/ZooKeeper/ZooKeeperWithFaultInjection.h): a proxy in front  *)
(* of a ZooKeeper client that injects a SessionExpired fault before and an *)
(* OperationTimeout fault after each operation, and tracks the ephemeral   *)
(* nodes it created.  The real client (zkutil::ZooKeeper) is the           *)
(* environment: a tree of nodes plus a nondeterministic choice of failure. *)
(***************************************************************************)
EXTENDS Integers, Sequences, FiniteSets, TLC

(***************************************************************************)
(* Bounds of the model.                                                    *)
(***************************************************************************)
\* longest ephemeral_nodes vector (operations that would exceed it are not taken)
MaxTracked == 2
\* number of sequential nodes the server hands out
MaxSeq == 1
\* number of calls made on the proxy in one run
MaxCalls == 3

(***************************************************************************)
(* Values.                                                                 *)
(***************************************************************************)
NULL == "nullptr"
Clients == {"zk1", "zk2"}
Paths == {"a", "b"}
\* the path the single-node operations are called with
OperationPaths == {"a"}

\* Coordination::Error codes used by the proxy and by the environment
ZOK == "ZOK"
ZNONODE == "ZNONODE"
ZNODEEXISTS == "ZNODEEXISTS"
ZBADVERSION == "ZBADVERSION"
ZNOTEMPTY == "ZNOTEMPTY"
ZBADARGUMENTS == "ZBADARGUMENTS"
ZCONNECTIONLOSS == "ZCONNECTIONLOSS"
ZSESSIONEXPIRED == "ZSESSIONEXPIRED"
ZOPERATIONTIMEOUT == "ZOPERATIONTIMEOUT"
\* DB::Exception(ErrorCodes::LOGICAL_ERROR): not a KeeperException
LOGICAL_ERROR == "LOGICAL_ERROR"

\* Coordination::isHardwareError, as access() uses it on returned and caught codes
isHardwareError(code) == code \in {ZCONNECTIONLOSS, ZSESSIONEXPIRED, ZOPERATIONTIMEOUT}

\* zkutil::CreateMode; bit 1 of the mode is "ephemeral", bit 2 is "sequential"
Persistent == "Persistent"
Ephemeral == "Ephemeral"
PersistentSequential == "PersistentSequential"
EphemeralSequential == "EphemeralSequential"
Modes == {Persistent, Ephemeral, PersistentSequential, EphemeralSequential}
\* the modes tryCreate and create are called with
CreateModes == {Persistent, Ephemeral, EphemeralSequential}
IsSequentialMode(mode) == mode \in {PersistentSequential, EphemeralSequential}

\* a node name: the requested path and the sequence number the server
\* appended (0: none); the empty string is the empty tuple
Name(path, n) == <<path, n>>
EmptyPath == <<>>
Names == Paths \X (0 .. MaxSeq)
NoVal == <<>>

\* what a call gives its caller: a returned value or code, a thrown
\* KeeperException (code), or a thrown DB::Exception LOGICAL_ERROR ("fatal")
Returned(code, val) == [how |-> "return", code |-> code, val |-> val]
Thrown(code) == [how |-> "throw", code |-> code, val |-> NoVal]
Fatal == [how |-> "fatal", code |-> LOGICAL_ERROR, val |-> NoVal]
\* no outcome: the real client was not called, nothing was thrown
Nothing == [how |-> "none", code |-> ZOK, val |-> NoVal]

VARIABLES
    keeper,             \* zk::Ptr keeper: a client or NULL
    keeper_prev,        \* zk::Ptr keeper_prev
    fault_policy,       \* std::unique_ptr<RandomFaultInjection>: [set, probability, must_fail_*]
    ephemeral_nodes,    \* std::vector<std::string> ephemeral_nodes
    tree,               \* the server's nodes: Names -> "none" | "persistent" | "ephemeral"
    next_seq,           \* the server's next sequence number
    inflight,           \* the asynchronous request sent and not yet answered, with its callback
    last,               \* what the last proxy call did and gave (observation of the call)
    calls,              \* number of calls made on the proxy so far
    seed,               \* const UInt64 seed: the seed the policy was seeded with (0: none)
    given,              \* the arguments createInstance was called with
    racing,             \* the checkpoints of asynchronous calls that run on several threads
    granularity,        \* a MergeTreeIndexGranularityConstant object
    observed            \* what the last call on the granularity object was given and did

vars ==
    <<keeper, keeper_prev, fault_policy, ephemeral_nodes, tree, next_seq, inflight, last, calls,
      seed, given, racing, granularity, observed>>

(***************************************************************************)
(* RandomFaultInjection                                                    *)
(***************************************************************************)
\* no fault_policy object (the one-argument constructor)
NoPolicy ==
    [set |-> FALSE, probability |-> 0, must_fail_after_op |-> FALSE, must_fail_before_op |-> FALSE]

\* RandomFaultInjection(probability, seed): both flags false
RandomFaultInjection(probability) ==
    [set |-> TRUE, probability |-> probability,
     must_fail_after_op |-> FALSE, must_fail_before_op |-> FALSE]

\* the values distribution(rndgen) can give: std::bernoulli_distribution(p), p in percent
Bernoulli(probability) ==
    IF probability <= 0 THEN {FALSE}
    ELSE IF probability >= 100 THEN {TRUE}
    ELSE BOOLEAN

\* the draws an operation may see under policy fp (none is consumed without a policy)
Draws(fp) == IF fp.set THEN Bernoulli(fp.probability) ELSE {FALSE}
\* a draw the operation does not consume is not an input of it: it is
\* written as the one value every policy allows first
Undrawn(fp, draw) == draw = (fp.set /\ fp.probability >= 100)

\* faulty variant: the checkpoint ignores must_fail_before_op
beforeOperationWithoutOverride(fp, draw) == [fire |-> draw, policy |-> fp, drawn |-> <<draw>>]

\* beforeOperation / beforeOperationNoThrow: the decision, the policy
\* afterwards and the values taken from the generator (drawn).  In
\* "distribution(rndgen) || must_fail_before_op" the left operand is
\* evaluated first, whatever the flag is.
beforeOperation(fp, draw) ==
    LET fire == draw \/ fp.must_fail_before_op
    IN  [fire |-> fire,
         policy |-> IF fire THEN [fp EXCEPT !.must_fail_before_op = FALSE] ELSE fp,
         drawn |-> <<draw>>]

\* faulty variant: the checkpoint ignores must_fail_after_op
afterOperationWithoutOverride(fp, draw) == [fire |-> draw, policy |-> fp, drawn |-> <<draw>>]

\* faulty variant: the checkpoint fires under must_fail_after_op and leaves it set
afterOperationKeepingFlag(fp, draw) ==
    [fire |-> draw \/ fp.must_fail_after_op, policy |-> fp, drawn |-> <<draw>>]

\* afterOperation / afterOperationNoThrow
afterOperation(fp, draw) ==
    LET fire == draw \/ fp.must_fail_after_op
    IN  [fire |-> fire,
         policy |-> IF fire THEN [fp EXCEPT !.must_fail_after_op = FALSE] ELSE fp,
         drawn |-> <<draw>>]

(***************************************************************************)
(* createInstance                                                          *)
(***************************************************************************)
\* probabilities (percent) given to createInstance
ProbInputs == {-50, 0, 50, 100, 150}
\* those of them that are probabilities
InRange == {p \in ProbInputs : 0 <= p /\ p <= 100}
\* seeds given to createInstance, and values randomSeed() gives
SeedInputs == {0, 7}
GeneratedSeeds == {3, 9}

\* faulty variant: the probability is handed on as given
createInstanceWithoutClamp(fault_injection_probability) ==
    IF fault_injection_probability > 0 THEN RandomFaultInjection(fault_injection_probability)
    ELSE NoPolicy

createInstance(fault_injection_probability) ==
    LET p == IF fault_injection_probability < 0 THEN 0
             ELSE IF fault_injection_probability > 100 THEN 100
             ELSE fault_injection_probability
    IN  IF p > 0 THEN RandomFaultInjection(p) ELSE NoPolicy

\* the seed createInstance hands to the constructor; generated is what
\* randomSeed() gives when it is called
seedGiven(fault_injection_seed, generated) ==
    IF 0 = fault_injection_seed THEN generated ELSE fault_injection_seed

\* the member seed of the instance: the five-argument constructor stores
\* and seeds with the seed it gets, the one-argument constructor leaves 0
seedOf(policy, fault_injection_seed, generated) ==
    IF policy.set THEN seedGiven(fault_injection_seed, generated) ELSE 0

(***************************************************************************)
(* The real client (zkutil::ZooKeeper), as the proxy's calls see it.  Both *)
(* clients are sessions on the same server.  env is the failure the        *)
(* environment chooses for one request: none (the request is applied to    *)
(* the tree and answered), a hardware error thrown or returned, or an      *)
(* unexpected user-class error thrown; a failed request changes nothing.   *)
(***************************************************************************)
EnvFaults == {"none", "hw_throw", "hw_return", "user_throw"}
\* an operation whose result is not a Coordination::Error cannot return a code
EnvFaultsOf(result_is_error) ==
    IF result_is_error THEN EnvFaults ELSE EnvFaults \ {"hw_return"}
\* the failures of a request whose errors are never thrown: the asynchronous
\* requests (response.error) and keeper->tryMultiNoThrow
ReturnedFaults == {"none", "hw_return", "user_return"}
\* the refusals of a remove request: the version given is not the node's, the
\* node has children
RemoveRefusals == {"bad_version", "not_empty"}

Answer(env, natural) ==
    CASE env = "hw_throw" -> Thrown(ZCONNECTIONLOSS)
      [] env = "hw_return" -> Returned(ZCONNECTIONLOSS, NoVal)
      [] env = "user_throw" -> Thrown(ZBADARGUMENTS)
      [] env = "user_return" -> Returned(ZBADARGUMENTS, NoVal)
      [] env = "bad_version" -> Returned(ZBADVERSION, NoVal)
      [] env = "not_empty" -> Returned(ZNOTEMPTY, NoVal)
      [] OTHER -> natural

Succeeded(out) == out.how = "return" /\ out.code = ZOK

\* keeper->tryCreate(path, data, mode, path_created): val is path_created
RealTryCreate(t, seq, path, mode, env) ==
    LET name == IF IsSequentialMode(mode) THEN Name(path, seq) ELSE Name(path, 0)
        kind == IF mode \in {Ephemeral, EphemeralSequential} THEN "ephemeral" ELSE "persistent"
        natural == IF t[name] # "none" THEN Returned(ZNODEEXISTS, EmptyPath)
                   ELSE Returned(ZOK, name)
        out == Answer(env, natural)
    IN  [out |-> out,
         tree |-> IF Succeeded(out) THEN [t EXCEPT ![name] = kind] ELSE t,
         next_seq |-> IF Succeeded(out) /\ IsSequentialMode(mode) THEN seq + 1 ELSE seq]

\* keeper->remove(path): throws on every error
RealRemove(t, name, env) ==
    LET natural == IF t[name] = "none" THEN Thrown(ZNONODE) ELSE Returned(ZOK, NoVal)
        out == Answer(env, natural)
    IN  [out |-> out, tree |-> IF Succeeded(out) THEN [t EXCEPT ![name] = "none"] ELSE t]

\* keeper->tryRemove(path): returns ZNONODE, throws or returns the environment's failure
RealTryRemove(t, name, env) ==
    LET natural == IF t[name] = "none" THEN Returned(ZNONODE, NoVal) ELSE Returned(ZOK, NoVal)
        out == Answer(env, natural)
    IN  [out |-> out, tree |-> IF Succeeded(out) THEN [t EXCEPT ![name] = "none"] ELSE t]

\* keeper->get(path): the node's content (here: its kind) or a thrown error
RealGet(t, name, env) ==
    LET natural == IF t[name] = "none" THEN Thrown(ZNONODE) ELSE Returned(ZOK, <<t[name]>>)
    IN  [out |-> Answer(env, natural), tree |-> t]

\* keeper->tryGet(path, res): a bool, never a Coordination::Error
RealTryGet(t, name, env) ==
    LET natural == Returned(ZOK, <<t[name] # "none">>)
    IN  [out |-> Answer(env, natural), tree |-> t]

(***************************************************************************)
(* Request batches (Coordination::Requests) and the real multi.            *)
(***************************************************************************)
CreateRequest(path, is_ephemeral) ==
    [type |-> "create", path |-> path, is_ephemeral |-> is_ephemeral]
RemoveRequest(path) == [type |-> "remove", path |-> path, is_ephemeral |-> FALSE]

CreateResponse(path_created) == [type |-> "create", path_created |-> path_created, error |-> ZOK]
RemoveResponse == [type |-> "remove", path_created |-> EmptyPath, error |-> ZOK]
\* Coordination::ZooKeeperErrorResponse with its error set
ErrorResponse(code) == [type |-> "error", path_created |-> EmptyPath, error |-> code]

\* the batches the callers submit
Batches ==
    { <<>>,
      <<CreateRequest("a", TRUE)>>,
      <<RemoveRequest("a")>>,
      <<CreateRequest("a", TRUE), RemoveRequest("a")>>,
      <<CreateRequest("a", TRUE), CreateRequest("b", TRUE)>>,
      <<CreateRequest("b", FALSE), CreateRequest("a", TRUE)>>,
      <<CreateRequest("a", TRUE), RemoveRequest("a"), CreateRequest("a", FALSE)>> }

\* one request applied to the tree: the error it fails with, or the tree and response
ApplyRequest(t, req) ==
    LET name == Name(req.path, 0)
    IN  IF req.type = "create"
        THEN IF t[name] # "none"
             THEN [error |-> ZNODEEXISTS, tree |-> t, response |-> ErrorResponse(ZNODEEXISTS)]
             ELSE [error |-> ZOK,
                   tree |-> [t EXCEPT ![name] = IF req.is_ephemeral THEN "ephemeral" ELSE "persistent"],
                   response |-> CreateResponse(name)]
        ELSE IF t[name] = "none"
             THEN [error |-> ZNONODE, tree |-> t, response |-> ErrorResponse(ZNONODE)]
             ELSE [error |-> ZOK, tree |-> [t EXCEPT ![name] = "none"], response |-> RemoveResponse]

\* the transaction: all requests in order, or none (error: the first failure)
RECURSIVE ApplyBatch(_, _)
ApplyBatch(t, requests) ==
    IF requests = <<>> THEN [error |-> ZOK, tree |-> t, responses |-> <<>>]
    ELSE LET first == ApplyRequest(t, Head(requests))
         IN  IF first.error # ZOK
             THEN [error |-> first.error, tree |-> t, responses |-> <<>>]
             ELSE LET rest == ApplyBatch(first.tree, Tail(requests))
                  IN  IF rest.error # ZOK THEN [error |-> rest.error, tree |-> t, responses |-> <<>>]
                      ELSE [error |-> ZOK, tree |-> rest.tree,
                            responses |-> <<first.response>> \o rest.responses]

\* the responses of a failed batch: one error response per request
ErrorResponses(requests, code) == [i \in 1 .. Len(requests) |-> ErrorResponse(code)]

\* the response batch as the client hands it over: whole, or (a defective
\* client) without its last entry, or empty
Shapes == {"full", "short", "empty"}
Shaped(responses, shape) ==
    CASE shape = "short" /\ responses # <<>> -> SubSeq(responses, 1, Len(responses) - 1)
      [] shape = "empty" -> <<>>
      [] OTHER -> responses

\* keeper->tryMulti(requests, responses) / keeper->tryMultiNoThrow: val is responses
RealTryMulti(t, requests, env, shape) ==
    LET applied == ApplyBatch(t, requests)
        natural == IF applied.error = ZOK THEN Returned(ZOK, Shaped(applied.responses, shape))
                   ELSE Returned(applied.error, ErrorResponses(requests, applied.error))
        out == Answer(env, natural)
    IN  [out |-> out, tree |-> IF Succeeded(out) THEN applied.tree ELSE t]

\* keeper->multi(requests): the responses, or a thrown error
RealMulti(t, requests, env, shape) ==
    LET applied == ApplyBatch(t, requests)
        natural == IF applied.error = ZOK THEN Returned(ZOK, Shaped(applied.responses, shape))
                   ELSE Thrown(applied.error)
        out == Answer(env, natural)
    IN  [out |-> out, tree |-> IF Succeeded(out) THEN applied.tree ELSE t]

(***************************************************************************)
(* doForEachCreatedEphemeralNode and faultInjectionPostAction              *)
(***************************************************************************)
\* the indexes of the create requests with the ephemeral flag, in order
RECURSIVE EphemeralCreates(_, _)
EphemeralCreates(requests, i) ==
    IF i > Len(requests) THEN <<>>
    ELSE (IF requests[i].type = "create" /\ requests[i].is_ephemeral THEN <<i>> ELSE <<>>)
         \o EphemeralCreates(requests, i + 1)

\* the loop over create_requests: the created paths handed to the action,
\* until a response that is no CreateResponse ends it with LOGICAL_ERROR
RECURSIVE CreatedPaths(_, _)
CreatedPaths(indexes, responses) ==
    IF indexes = <<>> THEN [fatal |-> FALSE, paths |-> <<>>]
    ELSE IF responses[Head(indexes)].type # "create" THEN [fatal |-> TRUE, paths |-> <<>>]
    ELSE LET rest == CreatedPaths(Tail(indexes), responses)
         IN  [fatal |-> rest.fatal,
              paths |-> <<responses[Head(indexes)].path_created>> \o rest.paths]

\* faulty variant: a response batch of another size is skipped like an empty one
doForEachWithoutSizeCheck(requests, responses) ==
    IF Len(responses) # Len(requests) THEN [fatal |-> FALSE, paths |-> <<>>]
    ELSE CreatedPaths(EphemeralCreates(requests, 1), responses)

\* doForEachCreatedEphemeralNode: the paths the action is called with, in
\* order, and whether the scan ends by throwing LOGICAL_ERROR
doForEachCreatedEphemeralNode(requests, responses) ==
    IF responses = <<>> THEN [fatal |-> FALSE, paths |-> <<>>]
    ELSE IF Len(responses) # Len(requests) THEN [fatal |-> TRUE, paths |-> <<>>]
    ELSE CreatedPaths(EphemeralCreates(requests, 1), responses)

\* keeper->remove(path) for each path in order, until one throws; failing is
\* the set of positions whose request the environment fails
RECURSIVE RemoveEach(_, _, _, _)
RemoveEach(t, paths, i, failing) ==
    IF i > Len(paths) THEN [tree |-> t, thrown |-> Nothing, dels |-> <<>>]
    ELSE LET r == RealRemove(t, paths[i], IF i \in failing THEN "hw_throw" ELSE "none")
             del == [path |-> paths[i], ok |-> Succeeded(r.out)]
         IN  IF r.out.how = "throw"
             THEN [tree |-> t, thrown |-> r.out, dels |-> <<del>>]
             ELSE LET rest == RemoveEach(r.tree, paths, i + 1, failing)
                  IN  [tree |-> rest.tree, thrown |-> rest.thrown, dels |-> <<del>> \o rest.dels]

\* faulty variant: no compensating delete is issued
postActionWithoutDeletes(t, requests, responses, failing) ==
    [tree |-> t, thrown |-> Nothing, dels |-> <<>>]

\* faultInjectionPostAction: the compensating deletes of a committed batch
faultInjectionPostAction(t, requests, responses, failing) ==
    LET scan == doForEachCreatedEphemeralNode(requests, responses)
        removed == RemoveEach(t, scan.paths, 1, failing)
    IN  IF removed.thrown = Nothing /\ scan.fatal
        THEN [tree |-> removed.tree, thrown |-> Fatal, dels |-> removed.dels]
        ELSE removed

(***************************************************************************)
(* access: the execution core.  res is what operation() gives when it is   *)
(* called, after_thrown what fault_after_op_cleanup throws when it runs.   *)
(* stage: "null" (no keeper), "before" (before-fault), "hardware" (the     *)
(* returned hardware error is passed on), "threw" (operation threw),       *)
(* "after" (after-fault), "done".                                          *)
(***************************************************************************)
\* faulty variant: the catch block does not look at no_throw_access
caughtWithoutNoThrow(no_throw_access, result_is_error, code) ==
    IF result_is_error /\ ~isHardwareError(code) THEN Returned(code, NoVal) ELSE Thrown(code)

\* the catch block of access
Caught(no_throw_access, result_is_error, code) ==
    IF no_throw_access THEN Returned(code, NoVal)
    ELSE IF result_is_error
         THEN IF isHardwareError(code) THEN Thrown(code) ELSE Returned(code, NoVal)
         ELSE Thrown(code)

\* faulty variant: a returned hardware error goes on to the after-checkpoint
neverReturnsAtOnce(result_is_error, res) == FALSE

\* "if connectivity error occurred w/o fault injection -> just return it":
\* only an operation whose result is a Coordination::Error has the test
returnsAtOnce(result_is_error, res) == result_is_error /\ isHardwareError(res.code)

\* faulty variant: operation() is called before faultInjectionBefore
stepsOperationFirst(inject_failure_before_op, stage) ==
    CASE stage = "null" -> <<"failed">>
      [] stage = "before" -> <<"operation", "before_check", "before_cleanup", "failed">>
      [] stage = "threw" -> <<"operation", "failed">>
      [] stage = "hardware" -> <<"operation", "before_check", "done">>
      [] stage = "after" -> <<"operation", "before_check", "after_check", "after_cleanup", "failed">>
      [] OTHER -> <<"operation", "before_check", "after_check", "done">>

\* the statements of access a call executes, in the order of the code:
\* faultInjectionBefore (when compiled in) and the before-cleanup in its
\* handler, operation(), faultInjectionAfter and the after-cleanup in its
\* handler, and the way the call ends: a return of the result ("done") or
\* the catch block / an escaping exception ("failed")
steps(inject_failure_before_op, stage) ==
    LET checked == IF inject_failure_before_op THEN <<"before_check">> ELSE <<>>
    IN  CASE stage = "null" -> <<"failed">>
          [] stage = "before" -> <<"before_check", "before_cleanup", "failed">>
          [] stage = "threw" -> checked \o <<"operation", "failed">>
          [] stage = "hardware" -> checked \o <<"operation", "done">>
          [] stage = "after" -> checked \o <<"operation", "after_check", "after_cleanup", "failed">>
          [] OTHER -> checked \o <<"operation", "after_check", "done">>

access(no_throw_access, inject_failure_before_op, result_is_error, kp, fp, draw_before, draw_after, res, after_thrown) ==
    LET before == IF inject_failure_before_op /\ fp.set
                  THEN beforeOperation(fp, draw_before)
                  ELSE [fire |-> FALSE, policy |-> fp, drawn |-> <<>>]
        after == IF fp.set THEN afterOperation(before.policy, draw_after)
                 ELSE [fire |-> FALSE, policy |-> before.policy, drawn |-> <<>>]
        catch(code) == Caught(no_throw_access, result_is_error, code)
    IN  IF kp = NULL
        THEN [out |-> catch(ZSESSIONEXPIRED), policy |-> fp, stage |-> "null",
              trace |-> steps(inject_failure_before_op, "null"),
              draws |-> <<>>]
        ELSE IF before.fire
        THEN [out |-> catch(ZSESSIONEXPIRED), policy |-> before.policy, stage |-> "before",
              trace |-> steps(inject_failure_before_op, "before"),
              draws |-> before.drawn]
        ELSE IF res.how = "throw"
        THEN [out |-> catch(res.code), policy |-> before.policy, stage |-> "threw",
              trace |-> steps(inject_failure_before_op, "threw"),
              draws |-> before.drawn]
        ELSE IF returnsAtOnce(result_is_error, res)
        THEN [out |-> res, policy |-> before.policy, stage |-> "hardware",
              trace |-> steps(inject_failure_before_op, "hardware"),
              draws |-> before.drawn]
        ELSE IF after.fire
        THEN [out |-> IF after_thrown = Nothing THEN catch(ZOPERATIONTIMEOUT)
                      ELSE IF after_thrown = Fatal THEN Fatal
                      ELSE catch(after_thrown.code),
              policy |-> after.policy, stage |-> "after",
              trace |-> steps(inject_failure_before_op, "after"),
              draws |-> before.drawn \o after.drawn]
        ELSE [out |-> res, policy |-> after.policy, stage |-> "done",
              trace |-> steps(inject_failure_before_op, "done"),
              draws |-> before.drawn \o after.drawn]

\* whether operation() was called
Called(stage) == stage \notin {"null", "before"}
\* whether the catch block of access ran (a KeeperException was caught)
CatchRan(a, after_thrown) ==
    \/ a.stage \in {"null", "before", "threw"}
    \/ a.stage = "after" /\ after_thrown # Fatal
\* faulty variant: the catch block does not remember the client
prevNeverRemembered(a, after_thrown, kp, prev) == prev

\* keeper_prev after access: "if (keeper) keeper_prev = keeper" in the catch block
PrevAfter(a, after_thrown, kp, prev) ==
    IF CatchRan(a, after_thrown) /\ kp # NULL THEN kp ELSE prev

(***************************************************************************)
(* The observation of a proxy call (last): the operation, what the caller  *)
(* got (out), what the real client answered to the operation's own request *)
(* (real; Nothing when it got none), the stage access ended in, the two    *)
(* override flags and the tracker at entry, the ephemeral nodes the real   *)
(* operation created, the tree right after the real operation (committed), *)
(* the deletes issued by cleanup code (dels), and for an asynchronous      *)
(* operation the number of times its promise has been completed.  draws:   *)
(* the values the call took from the generator; prev: keeper_prev at entry.*)
(***************************************************************************)
NoObservation ==
    [op |-> "none", requests |-> <<>>, out |-> Nothing, real |-> Nothing, stage |-> "none",
     forced_before |-> FALSE, forced_after |-> FALSE, tracked |-> <<>>,
     created |-> <<>>, committed |-> [n \in Names |-> "none"], dels |-> <<>>,
     completions |-> 0, trace |-> <<>>, draws |-> <<>>, prev |-> NULL]

\* the deletes of cleanup code, with the client they were sent to
DelsOf(client, dels) ==
    [i \in 1 .. Len(dels) |-> [client |-> client, path |-> dels[i].path, ok |-> dels[i].ok]]

\* no asynchronous request in flight
NoRequest ==
    [op |-> "none", path |-> "", mode |-> Persistent, requests |-> <<>>, client |-> NULL,
     completions |-> 0]

\* one more call on the proxy; the caller waits for the answer to its
\* asynchronous request before it calls again
MayCall == calls < MaxCalls /\ inflight = NoRequest
Call == calls' = calls + 1

\* the inputs a call does not read are not enumerated: the draw of a
\* checkpoint that is not evaluated, the answer to a request that is not
\* sent, the failure of deletes that are not issued
ReadsOnly(stage, before_enabled, env, draw_before, draw_after, no_delete_fails) ==
    /\ (stage = "null" \/ ~before_enabled) => Undrawn(fault_policy, draw_before)
    /\ stage \in {"null", "before", "threw", "hardware"} => Undrawn(fault_policy, draw_after)
    /\ stage \in {"null", "before"} => env = "none"
    /\ stage # "after" => no_delete_fails

\* the part of ReadsOnly that is known before the call is made: no request
\* is sent without a client or after a before-fault, no after-checkpoint is
\* evaluated when the request was not sent or the real client threw, and no
\* delete is issued unless the after-checkpoint fires
ReadsAtMost(before_enabled, env, draw_before, draw_after, no_delete_fails) ==
    LET sends == /\ keeper # NULL
                 /\ ~(/\ before_enabled /\ fault_policy.set
                      /\ (draw_before \/ fault_policy.must_fail_before_op))
        answered == sends /\ env \notin {"hw_throw", "user_throw"}
        fires == /\ answered /\ fault_policy.set
                 /\ (draw_after \/ fault_policy.must_fail_after_op)
    IN  /\ (keeper = NULL \/ ~before_enabled) => Undrawn(fault_policy, draw_before)
        /\ ~sends => env = "none"
        /\ ~answered => Undrawn(fault_policy, draw_after)
        /\ ~fires => no_delete_fails

\* the state after a synchronous call whose effect is r
Finish(op, requests, r) ==
    /\ Call
    /\ Len(r.ephemeral_nodes) <= MaxTracked
    /\ fault_policy' = r.policy
    /\ keeper_prev' = r.keeper_prev
    /\ ephemeral_nodes' = r.ephemeral_nodes
    /\ tree' = r.tree
    /\ next_seq' = r.next_seq
    /\ last' = [op |-> op, requests |-> requests, out |-> r.out, real |-> r.real, stage |-> r.stage,
                forced_before |-> fault_policy.must_fail_before_op,
                forced_after |-> fault_policy.must_fail_after_op,
                tracked |-> ephemeral_nodes,
                created |-> r.created, committed |-> r.committed,
                dels |-> DelsOf(keeper, r.dels),
                completions |-> 0,
                trace |-> r.trace, draws |-> r.draws, prev |-> keeper_prev]
    /\ UNCHANGED <<keeper, inflight, seed, given, racing, granularity, observed>>

IsEphemeralMode(mode) == mode \in {EphemeralSequential, Ephemeral}

(***************************************************************************)
(* tryCreate, create, createIfNotExists                                    *)
(***************************************************************************)
\* tryCreate(path, data, mode, path_created); del_fails: the environment
\* fails the compensating keeper->remove
tryCreate(path, mode, env, draw_before, draw_after, del_fails) ==
    LET real == RealTryCreate(tree, next_seq, path, mode, env)
        \* fault_after_op_cleanup: remove the created ephemeral node, swallow a failure
        cleanup == IF real.out.val # EmptyPath /\ IsEphemeralMode(mode)
                   THEN RemoveEach(real.tree, <<real.out.val>>, 1, IF del_fails THEN {1} ELSE {})
                   ELSE [tree |-> real.tree, thrown |-> Nothing, dels |-> <<>>]
        a == access(FALSE, TRUE, TRUE, keeper, fault_policy, draw_before, draw_after,
                    real.out, Nothing)
        called == Called(a.stage)
        path_created == IF called THEN real.out.val ELSE EmptyPath
        collected == /\ a.out.how = "return"
                     /\ fault_policy.set
                     /\ path_created # EmptyPath /\ IsEphemeralMode(mode)
    IN  [out |-> [a.out EXCEPT !.val = path_created],
         real |-> IF called THEN real.out ELSE Nothing,
         stage |-> a.stage,
         trace |-> a.trace, draws |-> a.draws,
         policy |-> a.policy,
         keeper_prev |-> PrevAfter(a, Nothing, keeper, keeper_prev),
         tree |-> IF ~called THEN tree ELSE IF a.stage = "after" THEN cleanup.tree ELSE real.tree,
         next_seq |-> IF called THEN real.next_seq ELSE next_seq,
         ephemeral_nodes |-> IF collected THEN Append(ephemeral_nodes, path_created)
                             ELSE ephemeral_nodes,
         created |-> IF called /\ Succeeded(real.out) /\ IsEphemeralMode(mode)
                     THEN <<real.out.val>> ELSE <<>>,
         committed |-> IF called THEN real.tree ELSE tree,
         dels |-> IF a.stage = "after" THEN cleanup.dels ELSE <<>>]

\* create(path, data, mode): throws every code but ZOK
create(path, mode, env, draw_before, draw_after, del_fails) ==
    LET checked(r) == IF r.out.how = "return" /\ r.out.code # ZOK
                      THEN [r EXCEPT !.out = Thrown(r.out.code)]
                      ELSE IF r.out.how = "return" THEN r
                      ELSE [r EXCEPT !.out.val = NoVal]
    IN  checked(tryCreate(path, mode, env, draw_before, draw_after, del_fails))

\* createIfNotExists(path, data)
createIfNotExists(path, env, draw_before, draw_after) ==
    LET checked(r) == IF r.out.how = "return" /\ r.out.code \notin {ZOK, ZNODEEXISTS}
                      THEN [r EXCEPT !.out = Thrown(r.out.code)]
                      ELSE IF r.out.how = "return" THEN [r EXCEPT !.out = Returned(ZOK, NoVal)]
                      ELSE [r EXCEPT !.out.val = NoVal]
    IN  checked(tryCreate(path, Persistent, env, draw_before, draw_after, FALSE))

SeqAvailable(mode) == IsSequentialMode(mode) => next_seq <= MaxSeq

TryCreate ==
    MayCall /\ \E path \in OperationPaths, mode \in CreateModes, env \in EnvFaults,
       draw_before \in Draws(fault_policy), draw_after \in Draws(fault_policy),
       del_fails \in BOOLEAN :
        /\ SeqAvailable(mode)
        /\ ReadsAtMost(TRUE, env, draw_before, draw_after, ~del_fails)
        /\ \E r \in {tryCreate(path, mode, env, draw_before, draw_after, del_fails)} :
            /\ ReadsOnly(r.stage, TRUE, env, draw_before, draw_after, ~del_fails)
            /\ Finish("tryCreate", <<>>, r)

Create ==
    MayCall /\ \E path \in OperationPaths, mode \in CreateModes, env \in EnvFaults,
       draw_before \in Draws(fault_policy), draw_after \in Draws(fault_policy),
       del_fails \in BOOLEAN :
        /\ SeqAvailable(mode)
        /\ ReadsAtMost(TRUE, env, draw_before, draw_after, ~del_fails)
        /\ \E r \in {create(path, mode, env, draw_before, draw_after, del_fails)} :
            /\ ReadsOnly(r.stage, TRUE, env, draw_before, draw_after, ~del_fails)
            /\ Finish("create", <<>>, r)

CreateIfNotExists ==
    MayCall /\ \E path \in OperationPaths, env \in EnvFaults,
       draw_before \in Draws(fault_policy), draw_after \in Draws(fault_policy) :
        /\ ReadsAtMost(TRUE, env, draw_before, draw_after, TRUE)
        /\ \E r \in {createIfNotExists(path, env, draw_before, draw_after)} :
            /\ ReadsOnly(r.stage, TRUE, env, draw_before, draw_after, TRUE)
            /\ Finish("createIfNotExists", <<>>, r)

(***************************************************************************)
(* multi, tryMulti, tryMultiNoThrow                                        *)
(***************************************************************************)
\* the names of the ephemeral nodes a committed batch created, in batch order
CreatedBy(requests) ==
    LET indexes == EphemeralCreates(requests, 1)
    IN  [k \in 1 .. Len(indexes) |-> Name(requests[indexes[k]].path, 0)]

NoCleanup(t) == [tree |-> t, thrown |-> Nothing, dels |-> <<>>]

\* faulty variant: the created paths are collected in reverse order
collectReversed(collects, tracker, requests, responses) ==
    LET scan == doForEachCreatedEphemeralNode(requests, responses)
        n == Len(scan.paths)
    IN  IF collects
        THEN [fatal |-> scan.fatal,
              ephemeral_nodes |-> tracker \o [i \in 1 .. n |-> scan.paths[n + 1 - i]]]
        ELSE [fatal |-> FALSE, ephemeral_nodes |-> tracker]

\* faulty variant: the created paths are collected whether or not there is
\* a fault policy and whatever the call returned
collectWithoutPolicy(collects, tracker, requests, responses) ==
    LET scan == doForEachCreatedEphemeralNode(requests, responses)
    IN  [fatal |-> scan.fatal, ephemeral_nodes |-> tracker \o scan.paths]

\* "collect ephemeral nodes": doForEachCreatedEphemeralNode with push_back
Collect(collects, tracker, requests, responses) ==
    LET scan == doForEachCreatedEphemeralNode(requests, responses)
    IN  IF collects THEN [fatal |-> scan.fatal, ephemeral_nodes |-> tracker \o scan.paths]
        ELSE [fatal |-> FALSE, ephemeral_nodes |-> tracker]

\* what the three multi operations share; responses is what the caller's
\* responses holds when the call ends
MultiEffect(requests, real, post, a, responses, collects) ==
    LET called == Called(a.stage)
        collected == Collect(collects, ephemeral_nodes, requests, responses)
    IN  [out |-> [(IF collected.fatal THEN Fatal ELSE a.out) EXCEPT !.val = responses],
         real |-> IF called THEN real.out ELSE Nothing,
         stage |-> a.stage,
         trace |-> a.trace, draws |-> a.draws,
         policy |-> a.policy,
         keeper_prev |-> PrevAfter(a, post.thrown, keeper, keeper_prev),
         tree |-> IF ~called THEN tree ELSE IF a.stage = "after" THEN post.tree ELSE real.tree,
         next_seq |-> next_seq,
         ephemeral_nodes |-> collected.ephemeral_nodes,
         created |-> IF called /\ Succeeded(real.out) THEN CreatedBy(requests) ELSE <<>>,
         committed |-> IF called THEN real.tree ELSE tree,
         dels |-> IF a.stage = "after" THEN post.dels ELSE <<>>]

\* multi(requests)
\* real: what keeper->multi does; post: what fault_after_op_cleanup does
\* when it runs; a: what access does with the two
multi(requests, env, shape, draw_before, draw_after, failing) ==
    LET ended(real, post, a) ==
            MultiEffect(requests, real, post, a,
                        IF a.out.how = "return" THEN a.out.val ELSE <<>>,
                        fault_policy.set /\ a.out.how = "return")
        cleaned(real, post) ==
            ended(real, post, access(FALSE, TRUE, FALSE, keeper, fault_policy,
                                     draw_before, draw_after, real.out, post.thrown))
        answered(real) ==
            cleaned(real, faultInjectionPostAction(real.tree, requests, real.out.val, failing))
    IN  answered(RealMulti(tree, requests, env, shape))

\* the caller's responses after tryMulti / tryMultiNoThrow (empty at entry)
ResponsesAfter(requests, real, a) ==
    IF a.stage = "before" THEN ErrorResponses(requests, ZOPERATIONTIMEOUT)
    ELSE IF Called(a.stage) THEN real.out.val
    ELSE <<>>

\* tryMulti(requests, responses)
tryMulti(requests, env, shape, draw_before, draw_after, failing) ==
    LET ended(real, post, a) ==
            MultiEffect(requests, real, post, a, ResponsesAfter(requests, real, a),
                        fault_policy.set /\ a.out.how = "return" /\ a.out.code = ZOK)
        cleaned(real, post) ==
            ended(real, post, access(FALSE, TRUE, TRUE, keeper, fault_policy,
                                     draw_before, draw_after, real.out, post.thrown))
        answered(real) ==
            cleaned(real, IF real.out.code = ZOK
                          THEN faultInjectionPostAction(real.tree, requests, real.out.val, failing)
                          ELSE NoCleanup(real.tree))
    IN  answered(RealTryMulti(tree, requests, env, shape))

\* tryMultiNoThrow(requests, responses): no_throw, no before-fault
tryMultiNoThrow(requests, env, shape, draw_before, draw_after, failing) ==
    LET ended(real, post, a) ==
            MultiEffect(requests, real, post, a, ResponsesAfter(requests, real, a),
                        fault_policy.set /\ a.out.how = "return" /\ a.out.code = ZOK)
        cleaned(real, post) ==
            ended(real, post, access(TRUE, FALSE, TRUE, keeper, fault_policy,
                                     draw_before, draw_after, real.out, post.thrown))
        answered(real) ==
            cleaned(real, IF real.out.code = ZOK
                          THEN faultInjectionPostAction(real.tree, requests, real.out.val, failing)
                          ELSE NoCleanup(real.tree))
    IN  answered(RealTryMulti(tree, requests, env, shape))

\* the positions of compensating deletes the environment may fail
Failings(requests) == SUBSET (1 .. Len(CreatedBy(requests)))

Multi(shapes) ==
    MayCall /\ \E requests \in Batches, env \in EnvFaultsOf(FALSE), shape \in shapes,
       draw_before \in Draws(fault_policy), draw_after \in Draws(fault_policy) :
        \E failing \in Failings(requests) :
            /\ ReadsAtMost(TRUE, env, draw_before, draw_after, failing = {})
            /\ \E r \in {multi(requests, env, shape, draw_before, draw_after, failing)} :
                /\ ReadsOnly(r.stage, TRUE, env, draw_before, draw_after, failing = {})
                /\ Finish("multi", requests, r)

TryMulti(shapes) ==
    MayCall /\ \E requests \in Batches, env \in EnvFaults, shape \in shapes,
       draw_before \in Draws(fault_policy), draw_after \in Draws(fault_policy) :
        \E failing \in Failings(requests) :
            /\ ReadsAtMost(TRUE, env, draw_before, draw_after, failing = {})
            /\ \E r \in {tryMulti(requests, env, shape, draw_before, draw_after, failing)} :
                /\ ReadsOnly(r.stage, TRUE, env, draw_before, draw_after, failing = {})
                /\ Finish("tryMulti", requests, r)

\* envs: the failures of keeper->tryMultiNoThrow
TryMultiNoThrow(shapes, envs) ==
    MayCall /\ \E requests \in Batches, env \in envs, shape \in shapes,
       draw_before \in Draws(fault_policy), draw_after \in Draws(fault_policy) :
        \E failing \in Failings(requests) :
            /\ ReadsAtMost(FALSE, env, draw_before, draw_after, failing = {})
            /\ \E r \in {tryMultiNoThrow(requests, env, shape, draw_before, draw_after, failing)} :
                /\ ReadsOnly(r.stage, FALSE, env, draw_before, draw_after, failing = {})
                /\ Finish("tryMultiNoThrow", requests, r)

(***************************************************************************)
(* The operations that only forward through access: get (a value), tryGet  *)
(* (a bool), remove (void), tryRemove (a Coordination::Error).             *)
(***************************************************************************)
ForwardedOps == {"get", "tryGet", "remove", "tryRemove"}

RealForwarded(op, t, name, env) ==
    CASE op = "get" -> RealGet(t, name, env)
      [] op = "tryGet" -> RealTryGet(t, name, env)
      [] op = "remove" -> RealRemove(t, name, env)
      [] OTHER -> RealTryRemove(t, name, env)

\* access(name, path, [&]() { return keeper->op(path, ...); })
forwarded(op, name, env, draw_before, draw_after) ==
    LET real == RealForwarded(op, tree, name, env)
        a == access(FALSE, TRUE, op = "tryRemove", keeper, fault_policy,
                    draw_before, draw_after, real.out, Nothing)
        called == Called(a.stage)
    IN  [out |-> a.out,
         real |-> IF called THEN real.out ELSE Nothing,
         stage |-> a.stage,
         trace |-> a.trace, draws |-> a.draws,
         policy |-> a.policy,
         keeper_prev |-> PrevAfter(a, Nothing, keeper, keeper_prev),
         tree |-> IF called THEN real.tree ELSE tree,
         next_seq |-> next_seq,
         ephemeral_nodes |-> ephemeral_nodes,
         created |-> <<>>,
         committed |-> IF called THEN real.tree ELSE tree,
         dels |-> <<>>]

Forwarded ==
    MayCall /\ \E op \in ForwardedOps, path \in OperationPaths, env \in EnvFaults,
       draw_before \in Draws(fault_policy), draw_after \in Draws(fault_policy) :
        /\ env \in EnvFaultsOf(op = "tryRemove")
        /\ ReadsAtMost(TRUE, env, draw_before, draw_after, TRUE)
        /\ \E r \in {forwarded(op, Name(path, 0), env, draw_before, draw_after)} :
            /\ ReadsOnly(r.stage, TRUE, env, draw_before, draw_after, TRUE)
            /\ Finish(op, <<>>, r)

(***************************************************************************)
(* cleanupEphemeralNodes                                                   *)
(***************************************************************************)
\* the loop: keeper_prev->tryRemove(path) for each path, every exception caught
RECURSIVE TryRemoveEach(_, _, _, _, _)
TryRemoveEach(prev, t, paths, i, failing) ==
    IF i > Len(paths) \/ prev = NULL THEN [tree |-> t, dels |-> <<>>]
    ELSE LET r == RealTryRemove(t, paths[i], IF i \in failing THEN "hw_throw" ELSE "none")
             rest == TryRemoveEach(prev, r.tree, paths, i + 1, failing)
         IN  [tree |-> rest.tree,
              dels |-> <<[client |-> prev, path |-> paths[i], ok |-> Succeeded(r.out)]>>
                       \o rest.dels]

\* faulty variant: the loop ends at the first delete that fails
cleanupUntilFailure(prev, t, paths, failing) ==
    LET upto == IF \E i \in 1 .. Len(paths) : i \in failing
                THEN CHOOSE i \in 1 .. Len(paths) :
                         i \in failing /\ \A j \in 1 .. (i - 1) : j \notin failing
                ELSE Len(paths)
        r == TryRemoveEach(prev, t, SubSeq(paths, 1, upto), 1, failing)
    IN  [tree |-> r.tree, dels |-> r.dels, ephemeral_nodes |-> <<>>]

\* cleanupEphemeralNodes(): the loop, then ephemeral_nodes.clear()
cleanupEphemeralNodes(prev, t, paths, failing) ==
    LET r == TryRemoveEach(prev, t, paths, 1, failing)
    IN  [tree |-> r.tree, dels |-> r.dels, ephemeral_nodes |-> <<>>]

CleanupEphemeralNodes ==
    MayCall /\ \E failing \in SUBSET (1 .. Len(ephemeral_nodes)) :
        \E r \in {cleanupEphemeralNodes(keeper_prev, tree, ephemeral_nodes, failing)} :
            /\ keeper_prev = NULL => failing = {}
            /\ Call
            /\ tree' = r.tree
            /\ ephemeral_nodes' = r.ephemeral_nodes
            /\ last' = [NoObservation EXCEPT !.op = "cleanupEphemeralNodes",
                                             !.out = Returned(ZOK, NoVal),
                                             !.tracked = ephemeral_nodes,
                                             !.committed = tree,
                                             !.dels = r.dels]
            /\ UNCHANGED <<keeper, keeper_prev, fault_policy, next_seq, inflight, seed, given, racing, granularity, observed>>

(***************************************************************************)
(* setKeeper, and the override flags (public members of the policy, set by *)
(* the tests and by ReplicatedMergeTreeSinkImpl)                           *)
(***************************************************************************)
SetKeeper ==
    MayCall /\ \E keeper_ \in Clients \cup {NULL} :
        /\ Call
        /\ keeper' = keeper_
        /\ last' = [NoObservation EXCEPT !.op = "setKeeper"]
        /\ UNCHANGED <<keeper_prev, fault_policy, ephemeral_nodes, tree, next_seq, inflight, seed, given, racing, granularity, observed>>

SetMustFailBeforeOp ==
    /\ MayCall
    /\ fault_policy.set
    /\ Call
    /\ fault_policy' = [fault_policy EXCEPT !.must_fail_before_op = TRUE]
    /\ last' = [NoObservation EXCEPT !.op = "must_fail_before_op"]
    /\ UNCHANGED <<keeper, keeper_prev, ephemeral_nodes, tree, next_seq, inflight, seed, given, racing, granularity, observed>>

SetMustFailAfterOp ==
    /\ MayCall
    /\ fault_policy.set
    /\ Call
    /\ fault_policy' = [fault_policy EXCEPT !.must_fail_after_op = TRUE]
    /\ last' = [NoObservation EXCEPT !.op = "must_fail_after_op"]
    /\ UNCHANGED <<keeper, keeper_prev, ephemeral_nodes, tree, next_seq, inflight, seed, given, racing, granularity, observed>>

(***************************************************************************)
(* The asynchronous operations.  A call runs the before-check and either   *)
(* completes the promise at once or sends the request with its callback    *)
(* (inflight); the callback runs when the server answers (AsyncComplete).  *)
(* At most one request is in flight.                                       *)
(***************************************************************************)
\* the state of the std::future handed to the caller
Resolved(code, val) == [how |-> "value", code |-> code, val |-> val]
Rejected(code) == [how |-> "exception", code |-> code, val |-> NoVal]
Pending == [how |-> "pending", code |-> ZOK, val |-> NoVal]

AsyncOps ==
    {"asyncExists", "asyncTryGet", "asyncTryRemove", "asyncTryRemoveNoThrow",
     "asyncTryCreateNoThrow", "asyncTryMultiNoThrow"}
\* the forms that use injectFailureBeforeOp / injectFailureAfterOp (set_exception)
RejectingOps == {"asyncExists", "asyncTryGet", "asyncTryRemove"}
\* the modes asyncTryCreateNoThrow is called with
AsyncCreateModes == {Persistent, Ephemeral}

\* the arguments of a call of op
ArgsOf(op) ==
    IF op = "asyncTryMultiNoThrow"
    THEN {[path |-> "", mode |-> Persistent, requests |-> b] : b \in Batches}
    ELSE IF op = "asyncTryCreateNoThrow"
    THEN {[path |-> p, mode |-> m, requests |-> <<>>] : p \in OperationPaths, m \in AsyncCreateModes}
    ELSE {[path |-> p, mode |-> Persistent, requests |-> <<>>] : p \in OperationPaths}

\* "Coordination::MultiResponse errors" filled with request_size error
\* responses; its own error member is never assigned (stays ZOK)
MultiErrors(request_size, code) ==
    Resolved(ZOK, [i \in 1 .. request_size |-> ErrorResponse(code)])

\* faulty variant: every form completes the promise with set_exception
injectedByException(op, request_size, code) == Rejected(code)

\* the promise after an injected fault: set_exception (injectFailureBeforeOp,
\* injectFailureAfterOp) or set_value of a response carrying the code
Injected(op, request_size, code) ==
    IF op \in RejectingOps THEN Rejected(code)
    ELSE IF op = "asyncTryMultiNoThrow" THEN MultiErrors(request_size, code)
    ELSE Resolved(code, NoVal)

\* the part of an async operation that runs in the call; sets: the
\* completions (set_value, set_exception) it applies to the promise
asyncCall(op, requests, kp, fp, draw_before) ==
    LET before == IF fp.set THEN beforeOperation(fp, draw_before)
                  ELSE [fire |-> FALSE, policy |-> fp, drawn |-> <<>>]
        injected == Injected(op, Len(requests), ZSESSIONEXPIRED)
    IN  IF kp = NULL
        THEN [out |-> injected, sets |-> <<injected>>, policy |-> fp, stage |-> "null",
              draws |-> <<>>]
        ELSE IF before.fire
        THEN [out |-> injected, sets |-> <<injected>>,
              policy |-> before.policy, stage |-> "before", draws |-> before.drawn]
        ELSE [out |-> Pending, sets |-> <<>>, policy |-> before.policy, stage |-> "sent",
              draws |-> before.drawn]

AsyncCall ==
    MayCall /\ \E op \in AsyncOps :
        \E arg \in ArgsOf(op), draw_before \in Draws(fault_policy) :
            \E a \in {asyncCall(op, arg.requests, keeper, fault_policy, draw_before)} :
                /\ keeper = NULL => Undrawn(fault_policy, draw_before)
                /\ Call
                /\ fault_policy' = a.policy
                /\ inflight' = IF a.stage = "sent"
                               THEN [op |-> op, path |-> arg.path, mode |-> arg.mode,
                                     requests |-> arg.requests, client |-> keeper,
                                     completions |-> Len(a.sets)]
                               ELSE NoRequest
                /\ last' = [NoObservation EXCEPT
                                !.op = op, !.requests = arg.requests, !.out = a.out,
                                !.stage = a.stage, !.completions = Len(a.sets),
                                !.forced_before = fault_policy.must_fail_before_op,
                                !.forced_after = fault_policy.must_fail_after_op,
                                !.tracked = ephemeral_nodes, !.committed = tree,
                                !.draws = a.draws, !.prev = keeper_prev]
                /\ UNCHANGED <<keeper, keeper_prev, ephemeral_nodes, tree, next_seq, seed, given, racing, granularity, observed>>

\* keeper->impl->exists / get / remove / create / multi: the response handed
\* to the callback, and the tree afterwards
AsyncResponse(req, t, seq, env) ==
    LET name == Name(req.path, 0)
    IN  CASE req.op = "asyncExists" ->
               [out |-> Answer(env, Returned(IF t[name] = "none" THEN ZNONODE ELSE ZOK, NoVal)),
                tree |-> t]
          [] req.op = "asyncTryGet" ->
               [out |-> Answer(env, IF t[name] = "none" THEN Returned(ZNONODE, NoVal)
                                    ELSE Returned(ZOK, <<t[name]>>)),
                tree |-> t]
          [] req.op = "asyncTryCreateNoThrow" ->
               LET r == RealTryCreate(t, seq, req.path, req.mode, env)
               IN  [out |-> r.out, tree |-> r.tree]
          [] req.op = "asyncTryMultiNoThrow" -> RealTryMulti(t, req.requests, env, "full")
          [] OTHER -> RealTryRemove(t, name, env)

\* what a read of request_size through the callback's dangling reference
\* can give (the variable died when asyncTryMultiNoThrow returned)
MaxStale == 3
Dangling == 0 .. MaxStale

\* faulty variant: the callback hands every response to the future
completionAlwaysResolving(op, response) == Resolved(response.code, response.val)

\* the completion the callback applies to the promise when no fault is
\* injected: the response, or for the rejecting forms an exception when the
\* error is not one the form accepts
Completion(op, response) ==
    LET accepted == IF op = "asyncTryRemove" THEN {ZOK, ZNONODE, ZBADVERSION, ZNOTEMPTY}
                    ELSE {ZOK, ZNONODE}
    IN  IF op \in RejectingOps /\ response.code \notin accepted
        THEN Rejected(response.code)
        ELSE Resolved(response.code, response.val)

\* faulty variant: after an injected after-fault the callback goes on and
\* completes the promise with the response as well
callbackFallingThrough(op, fp, draw_after, request_size, response) ==
    LET after == IF fp.set THEN afterOperation(fp, draw_after)
                 ELSE [fire |-> FALSE, policy |-> fp, drawn |-> <<>>]
        injected == Injected(op, request_size, ZOPERATIONTIMEOUT)
        completion == Completion(op, response)
    IN  IF after.fire
        THEN [out |-> injected, sets |-> <<injected, completion>>,
              policy |-> after.policy, stage |-> "after", draws |-> after.drawn]
        ELSE [out |-> completion, sets |-> <<completion>>,
              policy |-> after.policy, stage |-> "done", draws |-> after.drawn]

\* the callback of op, run with the server's response; sets: the
\* completions it applies to the promise
callback(op, fp, draw_after, request_size, response) ==
    LET after == IF fp.set THEN afterOperation(fp, draw_after)
                 ELSE [fire |-> FALSE, policy |-> fp, drawn |-> <<>>]
        injected == Injected(op, request_size, ZOPERATIONTIMEOUT)
        completion == Completion(op, response)
    IN  IF after.fire
        THEN [out |-> injected, sets |-> <<injected>>,
              policy |-> after.policy, stage |-> "after", draws |-> after.drawn]
        ELSE [out |-> completion, sets |-> <<completion>>,
              policy |-> after.policy, stage |-> "done", draws |-> after.drawn]

\* the ephemeral nodes the answered request created
CreatedByRequest(req, out) ==
    IF ~Succeeded(out) THEN <<>>
    ELSE IF req.op = "asyncTryMultiNoThrow" THEN CreatedBy(req.requests)
    ELSE IF req.op = "asyncTryCreateNoThrow" /\ IsEphemeralMode(req.mode) THEN <<out.val>>
    ELSE <<>>

\* faulty variant: the callback tracks the ephemeral nodes of its request
asyncTrackedLikeSync(tracker, fp, req, out) ==
    IF fp.set THEN tracker \o CreatedByRequest(req, out) ELSE tracker

\* ephemeral_nodes after a callback: no callback has a push_back
asyncTracked(tracker, fp, req, out) == tracker

\* the client's thread answers the request in flight and runs its callback;
\* envs: the failures the server may answer with
AsyncComplete(envs) ==
    /\ inflight # NoRequest
    /\ \E env \in envs, draw_after \in Draws(fault_policy), request_size \in Dangling :
        \E resp \in {AsyncResponse(inflight, tree, next_seq, env)} :
        \E c \in {callback(inflight.op, fault_policy, draw_after, request_size, resp.out)} :
            /\ env \in RemoveRefusals => inflight.op \in {"asyncTryRemove", "asyncTryRemoveNoThrow"}
            /\ request_size # 0 => c.stage = "after" /\ inflight.op = "asyncTryMultiNoThrow"
            /\ ephemeral_nodes' = asyncTracked(ephemeral_nodes, fault_policy, inflight, resp.out)
            /\ Len(ephemeral_nodes') <= MaxTracked
            /\ fault_policy' = c.policy
            /\ tree' = resp.tree
            /\ inflight' = NoRequest
            /\ last' = [NoObservation EXCEPT
                            !.op = inflight.op, !.requests = inflight.requests, !.out = c.out,
                            !.real = Resolved(resp.out.code, resp.out.val),
                            !.stage = c.stage,
                            !.completions = inflight.completions + Len(c.sets),
                            !.forced_before = fault_policy.must_fail_before_op,
                            !.forced_after = fault_policy.must_fail_after_op,
                            !.tracked = ephemeral_nodes,
                            !.created = CreatedByRequest(inflight, resp.out),
                            !.committed = resp.tree,
                            !.draws = c.draws, !.prev = keeper_prev]
            /\ UNCHANGED <<keeper, keeper_prev, next_seq, calls, seed, given, racing, granularity, observed>>

(***************************************************************************)
(* Checkpoints on several threads.  Calls of asyncTryRemoveNoThrow are made *)
(* one after the other on the caller's thread; each evaluates the condition *)
(* of beforeOperationNoThrow and, when it holds, clears the flag in a       *)
(* second access to the policy.  The callbacks of the requests sent run on  *)
(* threads of their own and do the same with afterOperationNoThrow.  The    *)
(* class has no lock and no atomic: the accesses of different threads       *)
(* interleave in any order.                                                 *)
(* pc of a call: "idle", "before_clear" (condition held, flag not yet       *)
(* cleared), "failed_before", "sent", "after_clear", "failed_after", "done".*)
(***************************************************************************)
\* number of asynchronous calls made, and of overrides set
MaxRacing == 2
MaxOverrides == 1
Racers == 1 .. MaxRacing

\* no call made yet, no override set; by_override: the calls whose after-
\* checkpoint fired on the flag alone (the draw said no)
NoRacing ==
    [pc |-> [i \in Racers |-> "idle"], by_override |-> [i \in Racers |-> FALSE], overrides |-> 0]

\* the caller's thread is between two calls
CallerIdle == \A i \in Racers : racing.pc[i] # "before_clear"

\* "!keeper || (fault_policy && fault_policy->beforeOperationNoThrow())": the condition
RaceBeforeCheck(i) ==
    /\ CallerIdle
    /\ racing.pc[i] = "idle"
    /\ keeper # NULL
    /\ \E draw \in Draws(fault_policy) :
          LET fire == fault_policy.set /\ beforeOperation(fault_policy, draw).fire
          IN  racing' = [racing EXCEPT !.pc[i] = IF fire THEN "before_clear" ELSE "sent"]
    /\ UNCHANGED <<keeper, keeper_prev, fault_policy, ephemeral_nodes, tree, next_seq, inflight,
                   last, calls, seed, given, granularity, observed>>

\* "must_fail_before_op = false; return true", and the SessionExpired response
RaceBeforeClear(i) ==
    /\ racing.pc[i] = "before_clear"
    /\ fault_policy' = [fault_policy EXCEPT !.must_fail_before_op = FALSE]
    /\ racing' = [racing EXCEPT !.pc[i] = "failed_before"]
    /\ UNCHANGED <<keeper, keeper_prev, ephemeral_nodes, tree, next_seq, inflight,
                   last, calls, seed, given, granularity, observed>>

\* the callback: "fault_policy && fault_policy->afterOperationNoThrow()": the condition
RaceAfterCheck(i) ==
    /\ racing.pc[i] = "sent"
    /\ \E draw \in Draws(fault_policy) :
          LET fire == fault_policy.set /\ afterOperation(fault_policy, draw).fire
          IN  racing' = [racing EXCEPT !.pc[i] = IF fire THEN "after_clear" ELSE "done",
                                       !.by_override[i] = fire /\ ~draw]
    /\ UNCHANGED <<keeper, keeper_prev, fault_policy, ephemeral_nodes, tree, next_seq, inflight,
                   last, calls, seed, given, granularity, observed>>

\* "must_fail_after_op = false; return true", and the OperationTimeout response
RaceAfterClear(i) ==
    /\ racing.pc[i] = "after_clear"
    /\ fault_policy' = [fault_policy EXCEPT !.must_fail_after_op = FALSE]
    /\ racing' = [racing EXCEPT !.pc[i] = "failed_after"]
    /\ UNCHANGED <<keeper, keeper_prev, ephemeral_nodes, tree, next_seq, inflight,
                   last, calls, seed, given, granularity, observed>>

\* the caller sets must_fail_after_op between two calls
RaceSetMustFailAfterOp ==
    /\ CallerIdle
    /\ fault_policy.set
    /\ racing.overrides < MaxOverrides
    /\ fault_policy' = [fault_policy EXCEPT !.must_fail_after_op = TRUE]
    /\ racing' = [racing EXCEPT !.overrides = @ + 1]
    /\ UNCHANGED <<keeper, keeper_prev, ephemeral_nodes, tree, next_seq, inflight,
                   last, calls, seed, given, granularity, observed>>

(***************************************************************************)
(* MergeTreeIndexGranularityConstant                                       *)
(***************************************************************************)
\* the granularities objects are constructed with, the row counts given to
\* appendMark and adjustLastMark, and the number of data marks appended
Granularities == {0, 1, 2}
MaxRows == 3
RowCounts == 0 .. MaxRows
MaxMarks == 3

\* MergeTreeIndexGranularityConstant(constant_granularity_)
MergeTreeIndexGranularityConstant(constant_granularity_) ==
    [constant_granularity |-> constant_granularity_,
     last_mark_granularity |-> constant_granularity_,
     num_marks_without_final |-> 0,
     has_final_mark |-> FALSE]

getMarksCount(g) == g.num_marks_without_final + (IF g.has_final_mark THEN 1 ELSE 0)

\* faulty variant: a mark is appended after the final mark as well
appendMarkAfterFinal(g, rows_count) ==
    IF rows_count = 0 THEN [threw |-> FALSE, object |-> [g EXCEPT !.has_final_mark = TRUE]]
    ELSE IF rows_count # g.constant_granularity THEN [threw |-> TRUE, object |-> g]
    ELSE [threw |-> FALSE, object |-> [g EXCEPT !.num_marks_without_final = @ + 1]]

\* appendMark(rows_count): whether it threw LOGICAL_ERROR, and the object afterwards
appendMark(g, rows_count) ==
    IF g.has_final_mark THEN [threw |-> TRUE, object |-> g]
    ELSE IF rows_count = 0 THEN [threw |-> FALSE, object |-> [g EXCEPT !.has_final_mark = TRUE]]
    ELSE IF rows_count # g.constant_granularity THEN [threw |-> TRUE, object |-> g]
    ELSE [threw |-> FALSE, object |-> [g EXCEPT !.num_marks_without_final = @ + 1]]

\* adjustLastMark(rows_count)
adjustLastMark(g, rows_count) ==
    IF g.has_final_mark THEN [threw |-> TRUE, object |-> g]
    ELSE [threw |-> FALSE,
          object |-> [g EXCEPT !.num_marks_without_final = IF @ = 0 THEN 1 ELSE @,
                               !.last_mark_granularity = rows_count]]

\* size_t: the width of the machine word, reduced from 64 bits; unsigned
\* arithmetic wraps around at SizeModulus
SizeBits == 4
SizeModulus == 2 ^ SizeBits
SizePlus(a, b) == (a + b) % SizeModulus
SizeMinus(a, b) == (a + SizeModulus - b) % SizeModulus
SizeTimes(a, b) == (a * b) % SizeModulus

\* a getter's outcome: whether it threw LOGICAL_ERROR, and the value returned
GetterThrew == [threw |-> TRUE, value |-> 0]
Got(value) == [threw |-> FALSE, value |-> value]

\* getMarkRows(mark_index)
getMarkRows(g, mark_index) ==
    IF mark_index >= getMarksCount(g) THEN GetterThrew
    ELSE IF SizePlus(mark_index, 1) < g.num_marks_without_final THEN Got(g.constant_granularity)
    ELSE IF SizePlus(mark_index, 1) = g.num_marks_without_final THEN Got(g.last_mark_granularity)
    ELSE Got(0)

\* faulty variant: every data mark is taken to hold constant_granularity rows
getMarkStartingRowOfFullMarks(g, mark_index) ==
    IF mark_index > getMarksCount(g) THEN GetterThrew
    ELSE IF mark_index >= g.num_marks_without_final /\ mark_index # 0
         THEN Got(SizeTimes(g.constant_granularity, g.num_marks_without_final))
         ELSE Got(SizeTimes(g.constant_granularity, mark_index))

\* getMarkStartingRow(mark_index): total_rows and mark_index are size_t
getMarkStartingRow(g, mark_index) ==
    IF mark_index > getMarksCount(g) THEN GetterThrew
    ELSE LET clipped == mark_index >= g.num_marks_without_final /\ mark_index # 0
             total_rows == IF clipped THEN g.last_mark_granularity ELSE 0
             index == IF clipped THEN SizeMinus(g.num_marks_without_final, 1) ELSE mark_index
         IN  Got(SizePlus(total_rows, SizeTimes(g.constant_granularity, index)))

\* getTotalRows()
getTotalRows(g) ==
    IF g.num_marks_without_final = 0 THEN 0
    ELSE SizePlus(SizeTimes(g.constant_granularity, SizeMinus(g.num_marks_without_final, 1)),
                  g.last_mark_granularity)

\* getRowsCountInRange(begin, end): no check of its arguments
getRowsCountInRange(g, begin, end) ==
    LET clipped == end >= g.num_marks_without_final /\ end # 0
        total_rows == IF clipped THEN g.last_mark_granularity ELSE 0
        last_index == IF clipped THEN SizeMinus(g.num_marks_without_final, 1) ELSE end
    IN  Got(SizePlus(total_rows, SizeTimes(g.constant_granularity, SizeMinus(last_index, begin))))

\* no call on the object yet; before: the object at entry of the call
NoCall(g) == [op |-> "none", rows_count |-> 0, threw |-> FALSE, before |-> g]

\* the state after a call of op with rows_count whose effect is r
Marked(op, rows_count, r) ==
    /\ granularity' = r.object
    /\ observed' = [op |-> op, rows_count |-> rows_count, threw |-> r.threw,
                     before |-> granularity]
    /\ UNCHANGED <<keeper, keeper_prev, fault_policy, ephemeral_nodes, tree, next_seq, inflight,
                   last, calls, seed, given, racing>>

AppendMark ==
    \E rows_count \in RowCounts :
        \E r \in {appendMark(granularity, rows_count)} :
            /\ r.object.num_marks_without_final <= MaxMarks
            /\ Marked("appendMark", rows_count, r)

AdjustLastMark ==
    \E rows_count \in RowCounts :
        \E r \in {adjustLastMark(granularity, rows_count)} :
            /\ r.object.num_marks_without_final <= MaxMarks
            /\ Marked("adjustLastMark", rows_count, r)

\* the mark indexes the getters are called with: those of the object and
\* two past its marks
MarkIndexes == 0 .. MaxMarks + 2

\* what is seen of a getter op called with args that gave r
Read(op, args, r) ==
    [op |-> op, args |-> args, threw |-> r.threw, value |-> r.value, before |-> granularity]

GetMarkStartingRow ==
    \E mark_index \in MarkIndexes :
        /\ observed' = Read("getMarkStartingRow", <<mark_index>>,
                            getMarkStartingRow(granularity, mark_index))
        /\ UNCHANGED <<keeper, keeper_prev, fault_policy, ephemeral_nodes, tree, next_seq,
                       inflight, last, calls, seed, given, racing, granularity>>

GetRowsCountInRange ==
    \E begin \in MarkIndexes, end \in MarkIndexes :
        /\ begin <= end
        /\ observed' = Read("getRowsCountInRange", <<begin, end>>,
                            getRowsCountInRange(granularity, begin, end))
        /\ UNCHANGED <<keeper, keeper_prev, fault_policy, ephemeral_nodes, tree, next_seq,
                       inflight, last, calls, seed, given, racing, granularity>>

(***************************************************************************)
(* The proxy with a well-behaved client.                                   *)
(***************************************************************************)
\* the instance createInstance(p, s, zk1, ...) gives, p and s from the given sets
ProxyConstructed(probabilities, seeds) ==
    /\ keeper = "zk1"
    /\ keeper_prev = NULL
    /\ \E p \in probabilities, s \in seeds, generated \in GeneratedSeeds :
           /\ given = [fault_injection_probability |-> p, fault_injection_seed |-> s]
           /\ fault_policy = createInstance(p)
           /\ seed = seedOf(fault_policy, s, generated)
    /\ ephemeral_nodes = <<>>
    /\ tree = [n \in Names |-> "none"]
    /\ next_seq = 1
    /\ inflight = NoRequest
    /\ last = NoObservation
    /\ calls = 0
    /\ racing = NoRacing

\* the proxy, next to a granularity object that is left alone
Constructed(probabilities, seeds) ==
    /\ ProxyConstructed(probabilities, seeds)
    /\ granularity = MergeTreeIndexGranularityConstant(1)
    /\ observed = NoCall(granularity)

Init == Constructed(InRange, {7})

Next ==
    \/ TryCreate
    \/ Create
    \/ CreateIfNotExists
    \/ Multi({"full"})
    \/ TryMulti({"full"})
    \/ TryMultiNoThrow({"full"}, ReturnedFaults)
    \/ Forwarded
    \/ CleanupEphemeralNodes
    \/ SetKeeper
    \/ SetMustFailBeforeOp
    \/ SetMustFailAfterOp

Spec == Init /\ [][Next]_vars

(***************************************************************************)
(* The proxy with its asynchronous operations as well.                     *)
(***************************************************************************)
AsyncNext ==
    \/ TryCreate
    \/ Create
    \/ CreateIfNotExists
    \/ Multi({"full"})
    \/ TryMulti({"full"})
    \/ TryMultiNoThrow({"full"}, ReturnedFaults)
    \/ Forwarded
    \/ AsyncCall
    \/ AsyncComplete(ReturnedFaults)
    \/ SetKeeper
    \/ SetMustFailBeforeOp
    \/ SetMustFailAfterOp

AsyncSpec == Init /\ [][AsyncNext]_vars

(***************************************************************************)
(* The asynchronous operations next to tryCreate and the cleanup of the    *)
(* tracked nodes, with a server that may also refuse a remove.             *)
(***************************************************************************)
CallbackNext ==
    \/ AsyncCall
    \/ AsyncComplete(ReturnedFaults \cup RemoveRefusals)
    \/ TryCreate
    \/ CleanupEphemeralNodes
    \/ SetKeeper
    \/ SetMustFailBeforeOp
    \/ SetMustFailAfterOp

CallbackSpec == Init /\ [][CallbackNext]_vars

(***************************************************************************)
(* The proxy in front of a client that may hand over a response batch that *)
(* is shorter than the request batch, and whose tryMultiNoThrow may throw. *)
(***************************************************************************)
CraftedNext ==
    \/ Multi(Shapes)
    \/ TryMulti(Shapes)
    \/ TryMultiNoThrow(Shapes, EnvFaults)
    \/ SetKeeper
    \/ SetMustFailBeforeOp
    \/ SetMustFailAfterOp

CraftedSpec == Init /\ [][CraftedNext]_vars

(***************************************************************************)
(* The proxy as createInstance gives it for any probability and seed.      *)
(***************************************************************************)
ClampInit == Constructed(ProbInputs, SeedInputs)

ClampNext ==
    \/ TryCreate
    \/ Multi({"full"})
    \/ Forwarded
    \/ CleanupEphemeralNodes
    \/ SetKeeper

ClampSpec == ClampInit /\ [][ClampNext]_vars

(***************************************************************************)
(* Asynchronous calls whose checkpoints run on several threads.            *)
(***************************************************************************)
RaceNext ==
    \/ \E i \in Racers : RaceBeforeCheck(i)
    \/ \E i \in Racers : RaceBeforeClear(i)
    \/ \E i \in Racers : RaceAfterCheck(i)
    \/ \E i \in Racers : RaceAfterClear(i)
    \/ RaceSetMustFailAfterOp

RaceSpec == Init /\ [][RaceNext]_vars

(***************************************************************************)
(* A granularity object from its one-argument constructor on, next to a    *)
(* proxy that is left alone.                                               *)
(***************************************************************************)
GranularityInit ==
    /\ ProxyConstructed({0}, {7})
    /\ \E constant_granularity_ \in Granularities :
           granularity = MergeTreeIndexGranularityConstant(constant_granularity_)
    /\ observed = NoCall(granularity)

GranularityNext ==
    \/ AppendMark
    \/ AdjustLastMark

GranularitySpec == GranularityInit /\ [][GranularityNext]_vars

(***************************************************************************)
(* The same object with its row getters called between the appends.        *)
(***************************************************************************)
RowsNext ==
    \/ AppendMark
    \/ AdjustLastMark
    \/ GetMarkStartingRow
    \/ GetRowsCountInRange

RowsSpec == GranularityInit /\ [][RowsNext]_vars

(***************************************************************************)
(* Reading the observation of the last call.                               *)
(***************************************************************************)
\* the synchronous operations that hand the call to the real operation of
\* the same name
DirectOps == ForwardedOps \cup {"tryCreate", "multi", "tryMulti", "tryMultiNoThrow"}
SyncOps == DirectOps \cup {"create", "createIfNotExists"}
MultiOps == {"multi", "tryMulti", "tryMultiNoThrow"}
CreatingOps == MultiOps \cup {"tryCreate", "create"}

\* last is the observation of a call (not of a completion callback)
IsCall == last.op \in SyncOps \/ (last.op \in AsyncOps /\ last.stage \in {"null", "before", "sent"})
\* last is the observation of a completion callback
IsCompletion == last.op \in AsyncOps /\ last.stage \in {"after", "done"}

\* every compensating or cleanup delete of the last call succeeded
DeletesSucceeded == \A i \in 1 .. Len(last.dels) : last.dels[i].ok
\* the caller was told of an injected failure
ReportedInjected ==
    \/ last.stage \in {"null", "before"} /\ last.out.code = ZSESSIONEXPIRED
    \/ last.stage = "after" /\ last.out.code = ZOPERATIONTIMEOUT
\* no node the last call created exists
NoneCreatedExists == \A i \in 1 .. Len(last.created) : tree[last.created[i]] = "none"

(***************************************************************************)
(* Properties.                                                             *)
(***************************************************************************)
\* C1 (as stated): without a fault policy and with a client, every
\* operation gives its caller exactly the outcome the real client gave
\* (same value or error, thrown or returned alike), and the real client got
\* exactly one call.
C1_PureForwarding ==
    (~fault_policy.set /\ keeper # NULL /\ last.op \in DirectOps) =>
        /\ last.real # Nothing
        /\ last.out = last.real
        /\ last.dels = <<>>

\* C2 (as stated): with the before-override set, the next call of every
\* operation yields SessionExpired and the real client gets no call.
C2_EveryOperationFailsBefore ==
    (last.forced_before /\ IsCall) =>
        /\ last.out.code = ZSESSIONEXPIRED
        /\ last.real = Nothing
        /\ last.stage \in {"null", "before"}

\* the form in which an operation hands an injected code to its caller
InjectedOutcome(op, requests, code) ==
    IF op \in AsyncOps THEN Injected(op, Len(requests), code)
    ELSE IF op = "tryMultiNoThrow" THEN Returned(code, NoVal)
    ELSE Thrown(code)

\* C2: with the before-override set, the next call of every operation but
\* tryMultiNoThrow hands SessionExpired to its caller in the operation's form
\* (thrown by the synchronous operations, the try forms included; the
\* rejected or resolved future of the asynchronous ones, for
\* asyncTryMultiNoThrow one SessionExpired response per request) and the real
\* client gets no call; tryMultiNoThrow has no before-checkpoint: with a
\* client it calls the real client and leaves the flag set.
C2_BeforeOverride ==
    (last.forced_before /\ IsCall) =>
        IF last.op = "tryMultiNoThrow"
        THEN keeper # NULL => (last.real # Nothing /\ fault_policy.must_fail_before_op)
        ELSE /\ last.real = Nothing
             /\ last.stage \in {"null", "before"}
             /\ last.dels = <<>>
             /\ [last.out EXCEPT !.val = NoVal]
                    = [InjectedOutcome(last.op, last.requests, ZSESSIONEXPIRED) EXCEPT !.val = NoVal]
             /\ last.op = "asyncTryMultiNoThrow" =>
                    last.out = MultiErrors(Len(last.requests), ZSESSIONEXPIRED)

\* C2 witness: the before-override made a try operation throw SessionExpired
\* without a call of the real client
C2_Witness ==
    /\ last.forced_before
    /\ last.op = "tryRemove"
    /\ last.stage = "before"
    /\ last.out = Thrown(ZSESSIONEXPIRED)
    /\ ~fault_policy.must_fail_before_op

NonEphemeralEffectsRemain ==
    \A n \in Names : last.committed[n] # "ephemeral" => tree[n] = last.committed[n]
\* the nodes of the created paths are gone and every other node is as the
\* batch left it
OnlyCreatedPathsRemoved ==
    \A n \in Names :
        IF \E i \in 1 .. Len(last.created) : last.created[i] = n
        THEN tree[n] = "none"
        ELSE tree[n] = last.committed[n]

\* a multi operation that the real client committed under the after-override
\* and whose compensating deletes all succeeded
CommittedUnderAfterOverride ==
    /\ last.forced_after
    /\ last.op \in MultiOps
    /\ Succeeded(last.real)
    /\ DeletesSucceeded

\* C4 (as stated): such a call reports OperationTimeout, none of the created
\* paths exists afterwards and every non-ephemeral effect of the batch is
\* still present.
C4_CompensationKeepsOtherEffects ==
    CommittedUnderAfterOverride =>
        /\ last.out.code = ZOPERATIONTIMEOUT
        /\ NoneCreatedExists
        /\ NonEphemeralEffectsRemain

\* C4: such a call reports OperationTimeout (thrown by multi and tryMulti,
\* returned by tryMultiNoThrow), none of the created paths exists afterwards,
\* and every node on another path is as the batch left it; a persistent node
\* that the batch put on one of the created paths is deleted with it.
C4_CompensationByPath ==
    CommittedUnderAfterOverride =>
        /\ [last.out EXCEPT !.val = NoVal]
               = InjectedOutcome(last.op, last.requests, ZOPERATIONTIMEOUT)
        /\ last.stage = "after"
        /\ OnlyCreatedPathsRemoved

\* C4 witness: a committed batch with a persistent and an ephemeral create
\* under the after-override: the ephemeral node is gone, the persistent stays
C4_Witness ==
    /\ CommittedUnderAfterOverride
    /\ last.out.code = ZOPERATIONTIMEOUT
    /\ last.created = <<Name("a", 0)>>
    /\ last.committed[Name("b", 0)] = "persistent"
    /\ tree[Name("b", 0)] = "persistent"
    /\ tree[Name("a", 0)] = "none"

\* C5: with a fault policy, a creating operation that returns success without
\* an injected fault appends to ephemeral_nodes exactly the paths of the
\* ephemeral nodes it created, in batch order, and one that reported a
\* failure (injected or not) appends nothing.
C5_TrackerAppends ==
    (fault_policy.set /\ last.op \in CreatingOps) =>
        IF Succeeded(last.out)
        THEN last.stage = "done" /\ ephemeral_nodes = last.tracked \o last.created
        ELSE ephemeral_nodes = last.tracked

\* C5 witness: multi created two ephemeral nodes and both paths were appended
\* in batch order
C5_Witness ==
    /\ fault_policy.set
    /\ last.op = "multi"
    /\ Succeeded(last.out)
    /\ last.created = <<Name("a", 0), Name("b", 0)>>
    /\ ephemeral_nodes = last.tracked \o <<Name("a", 0), Name("b", 0)>>

\* C6 (as stated): after cleanupEphemeralNodes, whatever the state it was
\* called in, a delete was issued for each tracked path against a known
\* client and, when the deletes succeeded, no tracked node exists.
C6_CleanupDeletesEveryTrackedNode ==
    last.op = "cleanupEphemeralNodes" =>
        /\ Len(last.dels) = Len(last.tracked)
        /\ \A i \in 1 .. Len(last.dels) :
               last.dels[i].path = last.tracked[i] /\ last.dels[i].client \in Clients
        /\ DeletesSucceeded => \A i \in 1 .. Len(last.tracked) : tree[last.tracked[i]] = "none"

\* C7: cleanupEphemeralNodes returns normally and leaves ephemeral_nodes
\* empty whatever the deletes did, and with a previous client it attempts the
\* delete of every tracked path, in order, also after one of them failed.
C7_CleanupIsBestEffort ==
    last.op = "cleanupEphemeralNodes" =>
        /\ last.out = Returned(ZOK, NoVal)
        /\ ephemeral_nodes = <<>>
        /\ keeper_prev # NULL =>
               /\ Len(last.dels) = Len(last.tracked)
               /\ \A i \in 1 .. Len(last.dels) :
                      last.dels[i].path = last.tracked[i] /\ last.dels[i].client = keeper_prev

\* C7 witness: two tracked paths, the first delete failed, the second was
\* attempted and succeeded
C7_Witness ==
    /\ last.op = "cleanupEphemeralNodes"
    /\ Len(last.tracked) = 2
    /\ Len(last.dels) = 2
    /\ ~last.dels[1].ok
    /\ last.dels[2].ok
    /\ ephemeral_nodes = <<>>

\* an asynchronous call whose before-checkpoint fired or that found no client
FailedBeforeSending == last.op \in AsyncOps /\ IsCall /\ last.stage \in {"null", "before"}

\* C8 (as stated): such a call returns a future already resolved with an
\* error value carrying SessionExpired, not rejected with an exception, and
\* sends no request.
C8_ResolvedWithErrorValue ==
    FailedBeforeSending =>
        /\ last.out.how = "value"
        /\ last.out.code = ZSESSIONEXPIRED
        /\ inflight = NoRequest

\* C8: such a call returns a completed future and sends no request; the
\* future of asyncExists, asyncTryGet and asyncTryRemove is rejected with a
\* SessionExpired exception, that of asyncTryRemoveNoThrow and
\* asyncTryCreateNoThrow is resolved with a response whose error is
\* SessionExpired, and that of asyncTryMultiNoThrow is resolved with a
\* response batch holding one SessionExpired error response per request (none
\* for an empty batch) whose own error is not set.
C8_CompletedBeforeSending ==
    FailedBeforeSending =>
        /\ last.out = (IF last.op \in RejectingOps THEN Rejected(ZSESSIONEXPIRED)
                       ELSE IF last.op = "asyncTryMultiNoThrow"
                       THEN Resolved(ZOK, ErrorResponses(last.requests, ZSESSIONEXPIRED))
                       ELSE Resolved(ZSESSIONEXPIRED, NoVal))
        /\ last.real = Nothing
        /\ inflight = NoRequest
        /\ tree = last.committed

\* C8 witness: asyncTryMultiNoThrow on a proxy without client resolved its
\* future with one SessionExpired response for each of its two requests
C8_Witness ==
    /\ FailedBeforeSending
    /\ last.stage = "null"
    /\ last.op = "asyncTryMultiNoThrow"
    /\ Len(last.requests) = 2
    /\ last.out = Resolved(ZOK, <<ErrorResponse(ZSESSIONEXPIRED), ErrorResponse(ZSESSIONEXPIRED)>>)

\* the future carries the code: as its exception, as the error of its
\* response, or as the error of a response of its batch
Carries(out, op, code) ==
    \/ out.how \in {"value", "exception"} /\ out.code = code
    \/ /\ op = "asyncTryMultiNoThrow"
       /\ out.how = "value"
       /\ \E i \in 1 .. Len(out.val) : out.val[i].error = code

\* C9 (as stated): when the after-checkpoint fires in the callback of an
\* asynchronous operation, the future is completed with OperationTimeout
\* whatever the server answered, no compensating request is issued and the
\* effect of the operation on the server remains.
C9_CallbackReportsOperationTimeout ==
    (IsCompletion /\ last.stage = "after") =>
        /\ Carries(last.out, last.op, ZOPERATIONTIMEOUT)
        /\ last.dels = <<>>
        /\ tree = last.committed

\* the call ended with the thrown LOGICAL_ERROR (the caller's responses hold
\* whatever the real client answered)
RaisedFatal == last.out.how = "fatal" /\ last.out.code = LOGICAL_ERROR

\* a multi operation to which the real client returned ZOK with a response
\* batch shorter than the request batch
ShortResponseBatch ==
    /\ last.op \in MultiOps
    /\ Succeeded(last.real)
    /\ Len(last.real.val) < Len(last.requests)

\* C10 (as stated): such a call raises LOGICAL_ERROR, whatever the fault
\* probability and also for an empty response batch.
C10_ShortBatchIsFatal == ShortResponseBatch => RaisedFatal

\* C10: with a fault policy, such a call with a response batch that is not
\* empty raises LOGICAL_ERROR, whether or not the after-fault fired; without
\* a fault policy, or with an empty response batch, the responses are not
\* scanned.
C10_ShortBatchIsFatalWhenScanned ==
    ShortResponseBatch =>
        IF fault_policy.set /\ last.real.val # <<>> THEN RaisedFatal
        ELSE ~RaisedFatal

\* C10 witness: tryMultiNoThrow got one response for two requests and raised
\* LOGICAL_ERROR
C10_Witness ==
    /\ ShortResponseBatch
    /\ last.op = "tryMultiNoThrow"
    /\ Len(last.requests) = 2
    /\ Len(last.real.val) = 1
    /\ RaisedFatal

\* the real client reported a hardware error to the last call (thrown or
\* returned)
RealHardwareError == last.real # Nothing /\ isHardwareError(last.real.code)
\* a fault was injected in the last synchronous call (or it found no client)
FaultInjected == last.stage \in {"null", "before", "after"}
\* the caller got an error code, thrown or returned
GotError(code) == last.out.how \in {"return", "throw"} /\ last.out.code = code

\* C11 (as stated): a synchronous call to which the real client reported a
\* hardware error, or in which a fault was injected, gives its caller a
\* hardware-class error code, thrown or returned (the real client's own code
\* when it reported one), never a success, a default value or another error.
C11_HardwareErrorReachesCaller ==
    (last.op \in SyncOps /\ (RealHardwareError \/ FaultInjected)) =>
        /\ last.out.how \in {"return", "throw"}
        /\ isHardwareError(last.out.code)
        /\ RealHardwareError => last.out.code = last.real.code

\* the synchronous operations with a try contract
TryOps == {"tryCreate", "tryRemove", "tryGet", "tryMulti", "tryMultiNoThrow"}
\* the errors the real operation of a try contract hands back as a value
\* (zkutil::ZooKeeper: tryCreate, tryRemove, tryGet, tryMulti)
Whitelist(op) ==
    CASE op = "tryCreate" -> {ZNONODE, ZNODEEXISTS}
      [] op = "tryRemove" -> {ZNONODE, ZBADVERSION, ZNOTEMPTY}
      [] op = "tryGet" -> {ZNONODE}
      [] OTHER -> {ZNONODE, ZNODEEXISTS, ZBADVERSION, ZNOTEMPTY}

\* C12 (as stated): in a try-contract operation an error thrown by the real
\* client is returned only when it is in the operation's whitelist; every
\* other error thrown by the real client, and every hardware-class error
\* (thrown by the real client or injected), is thrown to the caller, also by
\* tryMultiNoThrow.
C12_OnlyWhitelistedErrorsReturned ==
    last.op \in TryOps =>
        /\ (last.real.how = "throw" /\ last.real.code \notin Whitelist(last.op)) =>
               last.out = Thrown(last.real.code)
        /\ (last.real.how = "throw" \/ FaultInjected) /\ isHardwareError(last.out.code) =>
               last.out.how = "throw"

\* C13: the promise of an asynchronous call is completed exactly once: by
\* the call itself when the before-checkpoint fired or no client was there
\* (then no request is sent and no callback exists), or not by the call
\* (the request is in flight, the future pending) and then exactly once by
\* the callback on each of its branches (after-fault, rejected error, value).
C13_PromiseCompletedOnce ==
    last.op \in AsyncOps =>
        CASE last.stage \in {"null", "before"} ->
               last.completions = 1 /\ last.out # Pending /\ inflight = NoRequest
          [] last.stage = "sent" ->
               /\ last.completions = 0 /\ last.out = Pending
               /\ inflight # NoRequest /\ inflight.completions = 0
          [] OTHER ->
               /\ last.stage \in {"after", "done"}
               /\ last.completions = 1 /\ last.out # Pending /\ inflight = NoRequest

\* C13 witness: the callback of asyncTryRemove injected the after-fault and
\* completed the promise once, with the OperationTimeout exception
C13_Witness ==
    /\ last.op = "asyncTryRemove"
    /\ last.stage = "after"
    /\ last.completions = 1
    /\ last.out = Rejected(ZOPERATIONTIMEOUT)

\* the last call went through the before-checkpoint with a client
PassedBeforeCheckpoint == last.op \in SyncOps \ {"tryMultiNoThrow"} /\ last.stage # "null"

\* C14: createInstance clamps the probability to [0, 1] (0..100 percent):
\* given a probability below 0 the proxy is the one given for 0 (no fault
\* policy: no checkpoint ever fires, nothing is tracked); given one above 1
\* it is the one given for 1 (every checkpoint decision fires); a
\* probability in range is kept; and a policy is seeded with the given seed,
\* or with a generated one when the given seed is 0.
C14_ProbabilityClamped ==
    LET p == given.fault_injection_probability
        s == given.fault_injection_seed
    IN  /\ p <= 0 =>
               /\ ~fault_policy.set
               /\ ephemeral_nodes = <<>>
               /\ last.stage \notin {"before", "after"}
        /\ p >= 100 =>
               /\ fault_policy.set /\ fault_policy.probability = 100
               /\ PassedBeforeCheckpoint => last.stage = "before"
        /\ (0 < p /\ p < 100) => fault_policy.set /\ fault_policy.probability = p
        /\ fault_policy.set => IF s = 0 THEN seed \in GeneratedSeeds ELSE seed = s

\* C14 witness: created with a probability above 1 and the seed 0, the
\* proxy injected the before-fault in tryCreate and holds a generated seed
C14_Witness ==
    /\ given.fault_injection_probability > 100
    /\ given.fault_injection_seed = 0
    /\ seed \in GeneratedSeeds
    /\ last.op = "tryCreate"
    /\ last.stage = "before"

\* C15: without a fault policy ephemeral_nodes is empty in every reachable
\* state, also after ephemeral creates that succeeded and committed batches
\* with ephemeral creates, and cleanupEphemeralNodes sends no request.
C15_NothingTrackedWithoutPolicy ==
    ~fault_policy.set =>
        /\ ephemeral_nodes = <<>>
        /\ last.tracked = <<>>
        /\ last.op = "cleanupEphemeralNodes" => last.dels = <<>> /\ tree = last.committed

\* C15 witness: without a fault policy, cleanupEphemeralNodes ran with a
\* previous client while a created ephemeral node existed and sent nothing
C15_Witness ==
    /\ ~fault_policy.set
    /\ last.op = "cleanupEphemeralNodes"
    /\ keeper_prev # NULL
    /\ \E n \in Names : tree[n] = "ephemeral"
    /\ last.dels = <<>>

\* the last call executed the step
Has(step) == \E i \in 1 .. Len(last.trace) : last.trace[i] = step
\* the place of a step in NOT_STARTED -> BEFORE_CHECK -> EXECUTING ->
\* AFTER_CHECK -> {DONE | FAILED}
Rank(step) ==
    CASE step = "before_check" -> 1
      [] step = "before_cleanup" -> 2
      [] step = "operation" -> 3
      [] step = "after_check" -> 4
      [] step = "after_cleanup" -> 5
      [] OTHER -> 6
\* no step repeated or reordered, and the call ends in DONE or FAILED
InOrder ==
    /\ \A i, j \in 1 .. Len(last.trace) : i < j => Rank(last.trace[i]) < Rank(last.trace[j])
    /\ last.trace # <<>>
    /\ last.trace[Len(last.trace)] \in {"done", "failed"}
\* an error was surfaced to the caller
ErrorSurfaced == last.out.how \in {"throw", "fatal"} \/ last.out.code # ZOK

\* what C16 says of every call, but for the before-check
FollowsStateMachine ==
    /\ InOrder
    /\ Has("operation") <=> last.real # Nothing
    /\ Has("operation") => ~Has("before_cleanup")
    /\ Has("after_check") => Has("operation") /\ last.real.how = "return"
    /\ Has("after_cleanup") => Has("after_check") /\ last.stage = "after"
    /\ last.dels # <<>> => Has("after_cleanup")
    /\ (Has("done") /\ last.op \in DirectOps) => last.out = last.real
    /\ Has("failed") => ErrorSurfaced

\* C16 (as stated): every synchronous call follows the state machine, and
\* the real operation is invoked only after the before-check has passed.
C16_EveryCallChecksBefore ==
    last.op \in SyncOps =>
        /\ FollowsStateMachine
        /\ Has("operation") => Has("before_check")

\* C16: every synchronous call follows the state machine, no step repeated
\* or reordered: the real operation is invoked at most once, after the null
\* test of the client and, in every operation but tryMultiNoThrow, after the
\* before-check has passed (tryMultiNoThrow has no before-check); the
\* after-check is evaluated at most once, after the real operation returned;
\* an after-failure cleanup runs only after the after-check fired; the call
\* ends in DONE with the real result or in FAILED with an error surfaced.
C16_CallFollowsStateMachine ==
    last.op \in SyncOps =>
        /\ FollowsStateMachine
        /\ keeper # NULL => Has("operation") \/ Has("before_cleanup")
        /\ IF last.op = "tryMultiNoThrow" THEN ~Has("before_check")
           ELSE Has("operation") => Has("before_check")

\* C16 witness: tryMulti passed the before-check, the real client committed
\* the batch, the after-check fired, the cleanup deleted the created node
\* and the call failed
C16_Witness ==
    /\ last.op = "tryMulti"
    /\ last.trace = <<"before_check", "operation", "after_check", "after_cleanup", "failed">>
    /\ last.dels # <<>>
    /\ last.out = [Thrown(ZOPERATIONTIMEOUT) EXCEPT !.val = last.real.val]

\* the real operation of the last synchronous call returned a hardware error
\* code
ReturnedHardwareError ==
    last.op \in SyncOps /\ last.real.how = "return" /\ isHardwareError(last.real.code)

\* C17: when the real operation of a synchronous call returns a hardware
\* error code, the proxy hands on that code unmodified (the operations that
\* go through access return what the real operation returned, create and
\* createIfNotExists throw the code) and the after-checkpoint is not
\* evaluated: the after-override flag is as it was and no cleanup runs.
C17_ReturnedHardwareErrorPassedOn ==
    ReturnedHardwareError =>
        /\ last.stage = "hardware"
        /\ last.op \in DirectOps => last.out = last.real
        /\ last.out.code = last.real.code
        /\ ~Has("after_check") /\ ~Has("after_cleanup")
        /\ fault_policy.must_fail_after_op = last.forced_after
        /\ last.dels = <<>>
        /\ tree = last.committed
        /\ ephemeral_nodes = last.tracked

\* C17 witness: tryMulti under the after-override got a hardware error code
\* from the real client, returned it, and the flag is still set
C17_Witness ==
    /\ ReturnedHardwareError
    /\ last.op = "tryMulti"
    /\ last.forced_after
    /\ fault_policy.must_fail_after_op
    /\ last.out = Returned(ZCONNECTIONLOSS, NoVal)

\* the operations that register a before-failure cleanup with access
BeforeCleanupOps == {"tryMulti", "tryMultiNoThrow"}
\* the caller's responses hold exactly one error response per request
OneErrorResponsePerRequest ==
    /\ Len(last.out.val) = Len(last.requests)
    /\ \A i \in 1 .. Len(last.out.val) : last.out.val[i].type = "error"

\* C18 (as stated): when a synchronous call fails before the real operation
\* with SessionExpired, because there is no client or because the before
\* decision is true, the registered before-failure cleanup has run: after
\* tryMulti the caller's responses hold one error response per request.
C18_BeforeCleanupHasRun ==
    (last.op \in BeforeCleanupOps /\ last.stage \in {"null", "before"}) =>
        /\ last.out.code = ZSESSIONEXPIRED
        /\ Has("before_cleanup")
        /\ OneErrorResponsePerRequest

\* C19 (as stated): whenever the after-checkpoint fires in a synchronous
\* call, the caller gets OperationTimeout, whatever the after-failure
\* cleanup did.
C19_AfterFaultReportsOperationTimeout ==
    (last.op \in SyncOps /\ last.stage = "after") => GotError(ZOPERATIONTIMEOUT)

\* C20 (as stated): when the after-checkpoint fires on a committed batch,
\* the cleanup issues a delete for every ephemeral path the batch created, in
\* order, also after an earlier delete failed.
C20_CleanupDeletesEveryCreatedPath ==
    (last.op \in MultiOps /\ last.stage = "after" /\ Succeeded(last.real)) =>
        /\ Len(last.dels) = Len(last.created)
        /\ \A i \in 1 .. Len(last.dels) :
               last.dels[i].path = last.created[i] /\ last.dels[i].client = keeper

\* C21 (as stated): when the after-checkpoint fires in a synchronous call
\* the real result is discarded: what the caller holds afterwards (the
\* responses of tryMulti and tryMultiNoThrow, the path_created of tryCreate)
\* carries nothing of the real outcome.
C21_RealResultDiscarded ==
    (last.op \in SyncOps /\ last.stage = "after") => last.out.val = NoVal

\* a proxy operation (synchronous call, asynchronous call or completion)
\* on a non-null current client that failed: the caller got an exception, an
\* error code, a rejected future or a future holding an error
FailedOnClient ==
    /\ IsCall \/ IsCompletion
    /\ keeper # NULL
    /\ \/ last.out.how \in {"throw", "fatal", "exception"}
       \/ last.out.how \in {"return", "value"} /\ last.out.code # ZOK

\* the catch block of access ran in the last call: an injected fault, an
\* exception of the real client or of the after-cleanup was caught
CatchBlockRan ==
    /\ last.op \in SyncOps
    /\ last.trace # <<>> /\ last.trace[Len(last.trace)] = "failed"
    /\ ~RaisedFatal

BeforeDecided ==
    /\ fault_policy.set
    /\ \/ last.op \in SyncOps /\ Has("before_check")
       \/ last.op \in AsyncOps /\ last.stage \in {"before", "sent"}
\* the last operation took a policy decision at its after-checkpoint
AfterDecided ==
    /\ fault_policy.set
    /\ \/ last.op \in SyncOps /\ Has("after_check")
       \/ IsCompletion
\* 1 for a decision that was taken with its override flag not set
Unforced(decided, forced) == IF decided /\ ~forced THEN 1 ELSE 0

\* C23 (as stated): a policy decision consumes exactly one random draw when
\* its override flag is not set and none when it is set, so the draws the
\* non-overridden decisions see do not depend on the overrides used.
C23_OverrideConsumesNoDraw ==
    (IsCall \/ IsCompletion) =>
        Len(last.draws) = Unforced(BeforeDecided, last.forced_before)
                          + Unforced(AfterDecided, last.forced_after)

\* C24 (as stated): an override flag is one-shot: with the before-override
\* set, the before-checkpoint of the very next proxy operation on a live
\* client fires and the flag is false afterwards.
C24_NextOperationConsumesOverride ==
    (IsCall /\ keeper # NULL /\ last.forced_before) =>
        last.stage = "before" /\ ~fault_policy.must_fail_before_op

\* C24 (amended): each override flag is one-shot and acts on its own
\* checkpoint only.  A checkpoint that is evaluated with its flag set fires
\* and leaves the flag false; one evaluated with the flag not set fires
\* exactly when its draw says so; an operation that does not evaluate a
\* checkpoint leaves that checkpoint's flag as it was.
C24_OverrideIsOneShot ==
    (IsCall \/ IsCompletion) =>
        /\ IF BeforeDecided
           THEN /\ ~fault_policy.must_fail_before_op
                /\ (last.stage = "before") = (last.forced_before \/ last.draws[1])
           ELSE fault_policy.must_fail_before_op = last.forced_before
        /\ IF AfterDecided
           THEN /\ ~fault_policy.must_fail_after_op
                /\ (last.stage = "after")
                       = (last.forced_after \/ last.draws[Len(last.draws)])
           ELSE fault_policy.must_fail_after_op = last.forced_after

\* C24 witness: the draws said no and the after-override alone made the after-checkpoint fire and was
\* cleared, after the before-checkpoint had passed on its draw
C24_Witness ==
    /\ AfterDecided /\ last.forced_after /\ ~last.forced_before
    /\ last.draws \in {<<FALSE, FALSE>>, <<FALSE>>}
    /\ last.stage = "after"
    /\ ~fault_policy.must_fail_after_op

\* the error codes with which the future of a rejecting operation is resolved
AcceptedBy(op) ==
    IF op = "asyncTryRemove" THEN {ZOK, ZNONODE, ZBADVERSION, ZNOTEMPTY} ELSE {ZOK, ZNONODE}

\* C25: when the after-checkpoint does not fire, the callback of asyncExists
\* and asyncTryGet resolves the future with the real response when its error
\* is OK or not-found, the callback of asyncTryRemove when it is OK,
\* not-found, bad-version or not-empty; otherwise the future is rejected with
\* an exception that carries the real error code.
C25_CallbackResolvesOrRejects ==
    (IsCompletion /\ last.op \in RejectingOps /\ last.stage = "done") =>
        /\ last.completions = 1
        /\ last.out = IF last.real.code \in AcceptedBy(last.op)
                      THEN Resolved(last.real.code, last.real.val)
                      ELSE Rejected(last.real.code)

\* C25 witness: the server refused the remove of asyncTryRemove for the
\* node's children, and the future holds that response
C25_Witness ==
    /\ IsCompletion /\ last.op = "asyncTryRemove" /\ last.stage = "done"
    /\ last.real.code = ZNOTEMPTY
    /\ last.out = Resolved(ZNOTEMPTY, NoVal)

\* the asynchronous operations whose future is never to be rejected
NoThrowOps == AsyncOps \ RejectingOps

\* the future holds a response with the injected code: for
\* asyncTryMultiNoThrow a batch of one error entry per request
HoldsInjected(code) ==
    /\ last.out.how = "value"
    /\ IF last.op = "asyncTryMultiNoThrow"
       THEN /\ Len(last.out.val) = Len(last.requests)
            /\ \A i \in 1 .. Len(last.out.val) : last.out.val[i] = ErrorResponse(code)
       ELSE last.out.code = code

\* C27 (as stated): the future of a NoThrow asynchronous operation is never
\* rejected: it holds a SessionExpired response after a null client or a
\* before-fault, an OperationTimeout response after an after-fault, and the
\* real response otherwise; the injected batch of asyncTryMultiNoThrow has
\* exactly one error entry per request, each with the injected code.
C27_NoThrowFutureHoldsResponse ==
    (last.op \in NoThrowOps /\ last.stage # "sent") =>
        CASE last.stage \in {"null", "before"} -> HoldsInjected(ZSESSIONEXPIRED)
          [] last.stage = "after" -> HoldsInjected(ZOPERATIONTIMEOUT)
          [] OTHER -> last.out = last.real

\* C28: tryMultiNoThrow never raises a coordination error.  A null client
\* (SessionExpired), an error thrown by the real client, hardware-class
\* included, an injected after-fault (OperationTimeout) and a failing
\* compensating delete (its error) all reach the caller as the returned
\* code; the only error raised is the fatal internal-consistency error, on a
\* response batch shorter than the request batch.
C28_TryMultiNoThrowReturnsErrors ==
    last.op = "tryMultiNoThrow" =>
        /\ last.out.how \in {"return", "fatal"}
        /\ RaisedFatal => ShortResponseBatch
        /\ last.stage = "null" => last.out.code = ZSESSIONEXPIRED
        /\ last.real.how = "throw" => last.out.code = last.real.code
        /\ (last.stage = "after" /\ ~RaisedFatal) =>
               IF DeletesSucceeded THEN last.out.code = ZOPERATIONTIMEOUT
               ELSE last.out.code \in {ZNONODE, ZCONNECTIONLOSS}

\* C28 witness: the real client threw a hardware error and tryMultiNoThrow
\* returned its code
C28_Witness ==
    /\ last.op = "tryMultiNoThrow"
    /\ last.real.how = "throw" /\ isHardwareError(last.real.code)
    /\ last.out.how = "return" /\ last.out.code = last.real.code

\* C29: no asynchronous operation, call or completion, failed or not, changes
\* the ephemeral tracker or the previous client reference; cleanup issues
\* deletes for tracked paths only, so an ephemeral node created through an
\* asynchronous operation, which is never tracked, is not deleted by it.
C29_AsyncLeavesTrackerAndPrev ==
    /\ last.op \in AsyncOps =>
           /\ ephemeral_nodes = last.tracked
           /\ keeper_prev = last.prev
    /\ last.op = "cleanupEphemeralNodes" =>
           \A i \in 1 .. Len(last.dels) :
               \E j \in 1 .. Len(last.tracked) : last.dels[i].path = last.tracked[j]

\* C29 witness: under a fault policy that tracks a node created by tryCreate,
\* asyncTryCreateNoThrow created an ephemeral node and the tracker is what
\* it was, without the new node
C29_Witness ==
    /\ IsCompletion /\ last.op = "asyncTryCreateNoThrow" /\ last.stage = "done"
    /\ fault_policy.set
    /\ last.created # <<>> /\ tree[last.created[1]] = "ephemeral"
    /\ ephemeral_nodes # <<>> /\ ephemeral_nodes = last.tracked
    /\ \A j \in 1 .. Len(ephemeral_nodes) : ephemeral_nodes[j] # last.created[1]

\* C26 (as stated): with the callbacks of several asynchronous calls running
\* concurrently with each other and with the before-checks of the caller's
\* thread, a single pending one-shot override makes exactly one checkpoint
\* fire: no two calls consume the same override, and the override is not
\* lost without a call failing.
C26_OverrideFiresOneCheckpoint ==
    /\ Cardinality({i \in Racers : racing.by_override[i]}) <= racing.overrides
    /\ (racing.overrides > 0 /\ ~fault_policy.must_fail_after_op) =>
           \E i \in Racers : racing.pc[i] = "failed_after"

\* a call on the granularity object has been observed
Observed(op) == observed.op = op
\* the fields of the object are what they were at entry of the call
ObjectUnchanged == granularity = observed.before

\* C30: once the final mark was appended, every appendMark and adjustLastMark
\* fails with a logical error; appendMark with a row count that is neither 0
\* nor the constant granularity fails with a logical error; a failing call
\* leaves num_marks_without_final, last_mark_granularity and has_final_mark
\* unchanged; a successful appendMark of a full granule increases the mark
\* count by exactly one.
C30_MarksAfterFinalAreRejected ==
    /\ (observed.op # "none" /\ observed.before.has_final_mark) => observed.threw
    /\ (Observed("appendMark")
          /\ observed.rows_count \notin {0, observed.before.constant_granularity})
          => observed.threw
    /\ observed.threw => ObjectUnchanged
    /\ (Observed("appendMark") /\ ~observed.threw /\ observed.rows_count # 0) =>
          /\ observed.rows_count = observed.before.constant_granularity
          /\ getMarksCount(granularity) = getMarksCount(observed.before) + 1

\* C30 witness: data marks and the final mark were appended, and a later
\* appendMark of a full granule failed and changed nothing
C30_Witness ==
    /\ Observed("appendMark") /\ observed.threw
    /\ observed.before.has_final_mark
    /\ observed.before.num_marks_without_final > 1
    /\ observed.rows_count = observed.before.constant_granularity
    /\ ObjectUnchanged

\* the rows of the marks begin .. end - 1, added up as size_t
RECURSIVE RowsOfMarks(_, _, _)
RowsOfMarks(g, begin, end) ==
    IF begin >= end THEN 0
    ELSE SizePlus(getMarkRows(g, begin).value, RowsOfMarks(g, begin + 1, end))

\* C31: in every state reached from the one-argument constructor by
\* appendMark and adjustLastMark, and for every mark_index up to
\* getMarksCount(), getMarkStartingRow(mark_index) is the sum of getMarkRows(j)
\* over j < mark_index in size_t arithmetic, and getMarkStartingRow of
\* getMarksCount() is getTotalRows(); so it is with no data mark and a final
\* mark.
C31_StartingRowIsSumOfMarkRows ==
    (Observed("getMarkStartingRow") /\ observed.args[1] <= getMarksCount(observed.before)) =>
        /\ ~observed.threw
        /\ observed.value = RowsOfMarks(observed.before, 0, observed.args[1])
        /\ observed.args[1] = getMarksCount(observed.before)
              => observed.value = getTotalRows(observed.before)

\* C31 witness: an object of granularity 2 with no data mark and the final
\* mark is asked for the starting row of mark 1, where the index wraps
\* around, and answers 0
C31_Witness ==
    /\ Observed("getMarkStartingRow") /\ ~observed.threw
    /\ observed.before.constant_granularity = 2
    /\ observed.before.num_marks_without_final = 0
    /\ observed.before.has_final_mark
    /\ observed.args = <<1>>
    /\ observed.value = 0

\* C32 (as stated): in every state reached by appendMark and adjustLastMark,
\* and for every begin <= end <= getMarksCount(), getRowsCountInRange(begin,
\* end) is the sum of getMarkRows(i) over begin <= i < end; it is 0 for every
\* empty range and for the range that holds only the final mark.
C32_RowsInRangeAreSummed ==
    (/\ Observed("getRowsCountInRange")
     /\ observed.args[1] <= observed.args[2]
     /\ observed.args[2] <= getMarksCount(observed.before)) =>
        /\ ~observed.threw
        /\ observed.value = RowsOfMarks(observed.before, observed.args[1], observed.args[2])

====
